---- MODULE Spec2Model ----
(***************************************************************************)
(* Cross-pair discrepancy engine of the Kraken scripts.                    *)
(*                                                                         *)
(* Part 1: the batched market fetcher (KrakenAPI.fetch_ohlc_batch and      *)
(* KrakenAPI.fetch_all_ohlc_parallel): one asyncio task per batch, the     *)
(* requests of a batch issued one after the other.                         *)
(***************************************************************************)
EXTENDS Integers, Sequences, FiniteSets, TLC

\* ------------------------------------------------------------------ bounds
\* Longest pair list handed to the fetcher.
MaxPairs == 3
\* Largest configured batch size.
MaxBatch == 2

\* ------------------------------------------------------------ constants
\* The exchange's pair catalogue, in the order of the keys of its response.
Catalog == <<"XBTUSD", "ETHUSD", "LTCUSD", "XRPUSD", "ADAUSD">>

\* What the exchange can do with one OHLC request:
\*   ok              a JSON object with a non-empty "result"
\*   transport_error session.get raises aiohttp.ClientError
\*   timeout         no answer: the session's total timeout raises TimeoutError
\*   malformed       response.json() raises (not JSON, wrong content type)
\*   noresult        a JSON object without the "result" key
OutcomeKinds == {"ok", "transport_error", "timeout", "malformed", "noresult"}

\* A raw candle row as the exchange sends it: the time in seconds and the close as
\* text (the other six columns take no part in what follows).
RawRow(t, c) == [time |-> t, close |-> c]

\* Raw candle payloads the fetcher's checks draw from.
FetchPayloads == { <<RawRow(0, "100.0")>>, <<RawRow(0, "100.0"), RawRow(15, "102.0")>> }

Outcomes == [kind : OutcomeKinds \ {"ok"}, data : {<<>>}]
              \cup [kind : {"ok"}, data : FetchPayloads]

VARIABLES
    all_pairs,      \* the pair list handed to fetch_all_ohlc_parallel
    batch_size,     \* KrakenAPI.batch_size
    outcome,        \* outcome[p]: the exchange's answer to the request for all_pairs[p]
    fpc,            \* fetch_all_ohlc_parallel: "idle", "gathering", "returned", "raised"
    batches,        \* batches[b]: the slice of all_pairs given to task b
    cursor,         \* cursor[b]: iterations of task b's for loop started so far
    bstate,         \* bstate[b]: "running", "returned", "raised"
    results,        \* results[b]: task b's local dict
    inflight,       \* positions of all_pairs whose request is awaited right now
    completed,      \* positions whose request has ended (answer or exception)
    requests,       \* requests[p]: requests issued for position p
    finished,       \* batch numbers in the order the tasks returned
    ohlc_data,      \* the merged dict fetch_all_ohlc_parallel returns
    \* backtest_and_compare called on its own
    an_pc,          \* "off", "ready", "called", "both"
    an_a,           \* df_a
    an_b,           \* df_b
    an_threshold,   \* entry_threshold
    an_df,          \* the joined table df of the call (df_a, df_b)
    an_out,         \* what the call (df_a, df_b) returned
    an_rev,         \* what the call (df_b, df_a) returned
    \* main() of the two arb_foresight scripts
    variant,        \* "backtest": kraken_backtest/ARB Foresight; "legacy": ARB Foresight
    mpc,            \* "off", "start", "fetching", "compare", "done", "crashed"
    catalog_answer, \* what the exchange did with the AssetPairs request
    pairs_found,    \* all_pairs of main: what fetch_asset_pairs returned
    selected_pairs, \* the pairs main analyses
    report,         \* the closing log line: "", "no_pairs", "saved", "no_discrepancies"
    ohlc_frames,    \* pair -> frame, for the payloads the normalizer accepted
    ci,             \* index of pair_a in the comparison loop
    cj,             \* index of pair_b
    processed_pairs,\* the seen-set of the comparison loop
    considered,     \* the (pair_a, pair_b) the loop body went on with, in order
    analyzer_calls, \* the (pair_a, pair_b) the analyzer was called with, in order
    all_results,    \* the non-empty result frames
    csv_rows,       \* the rows written to the results file
    \* save_to_database of analyze_data.py
    st_pc,          \* "off", "ready"
    db_table,       \* the table arbitrage_opportunities: whether it exists, its rows
    st_calls,       \* calls of save_to_database so far
    st_df,          \* df of the last call
    st_load,        \* what load_existing_data did in the last call: "ok", "error"
    st_write,       \* what the write of the last call did: "ok" or where it raised
    st_before,      \* the table as it was before the last call
    \* the scoring functions of arb_backtest_tuner.py and enhanced_analysis.py
    sc_pc,          \* "off", "ready", "called"
    sc_script,      \* "tuner", "enhanced"
    sc_df,          \* the caller's table: its columns and rows
    sc_in,          \* the caller's table as it was when the last call was made
    sc_call,        \* the function called last
    sc_mean,        \* mean passed to the call
    sc_std,         \* std_dev passed to the call
    sc_k,           \* threshold passed to the call, in tenths
    sc_ret,         \* what the last call returned
    \* get_top_opportunities and formulate_strategy
    cal_pc,         \* "off", "ready", "called"
    cal_df,         \* the table: columns, rows (time, adjusted discrepancy), dtype
    cal_method,     \* method
    cal_value,      \* value: a percentile, tenths for "std_dev", a level for "fixed"
    cal_n,          \* n
    cal_top,        \* whether get_top_opportunities was called, what it returned
    cal_strategy,   \* the same for formulate_strategy on the same table
    \* main() of arb_backtest_tuner.py
    tu_pc,          \* "off", "start", "data", "fees", "merged", "validated", "profit",
                    \* "optimized", "done", "no_data", "no_fees", "crashed"
    tu_db,          \* what load_existing_data reads from the store
    tu_fee_file,    \* the file trade_fees.csv
    tu_df,          \* df of main
    tu_fees,        \* fees_df of main
    tu_stats,       \* mean and std_dev of main
    tu_log,         \* the error lines logged, in order
    tu_steps,       \* the merging, validating and scoring calls made, in order
    tu_ret,         \* what the last scoring call returned
    \* utils/cache.py and the loop of kraken_backtest/main.py
    clock,          \* datetime.now(), in minutes
    cache_files,    \* results/cache/: path -> the decoded content of the file
    last_saved,     \* (pair, interval) -> the last save_to_cache call made for it
    ca_call,        \* the last call of load_cached_data or save_to_cache
    ca_calls,       \* calls made from outside main so far
    km_pc,          \* main: "off", "loop", "fetching", "done", "crashed"
    km_interval,    \* interval of main
    km_pairs,       \* asset_pairs of main
    km_i,           \* pairs of asset_pairs the loop has finished
    km_data,        \* data of main
    km_iters        \* the iterations of the loop: what was loaded, fetched, saved

anVars == <<an_pc, an_a, an_b, an_threshold, an_df, an_out, an_rev>>

mainVars == <<variant, mpc, catalog_answer, pairs_found, selected_pairs, report,
              ohlc_frames, ci, cj, processed_pairs, considered, analyzer_calls,
              all_results, csv_rows>>

fetchVars == <<all_pairs, batch_size, outcome, fpc, batches, cursor, bstate,
               results, inflight, completed, requests, finished, ohlc_data>>

storeVars == <<st_pc, db_table, st_calls, st_df, st_load, st_write, st_before>>

scoreVars == <<sc_pc, sc_script, sc_df, sc_in, sc_call, sc_mean, sc_std, sc_k, sc_ret>>

calVars == <<cal_pc, cal_df, cal_method, cal_value, cal_n, cal_top, cal_strategy>>

tunerVars == <<tu_pc, tu_db, tu_fee_file, tu_df, tu_fees, tu_stats, tu_log, tu_steps,
               tu_ret>>

cacheVars == <<clock, cache_files, last_saved, ca_call, ca_calls, km_pc, km_interval,
               km_pairs, km_i, km_data, km_iters>>

\* The parts of analyze_data.py, arb_backtest_tuner.py, enhanced_analysis.py,
\* strategy_builder.py and kraken_backtest/main.py.
otherVars == <<storeVars, scoreVars, calVars, tunerVars, cacheVars>>

vars == <<fetchVars, anVars, mainVars, otherVars>>

\* ------------------------------------------------------------- helpers
Min(a, b) == IF a < b THEN a ELSE b

EmptyDict == [k \in {} |-> <<>>]

\* What process_ohlc_data returns for a payload it rejects.
None == [none |-> TRUE, rows |-> <<>>]

\* entry_threshold=None, and a threshold passed by the caller.
NoThreshold == [given |-> FALSE, value |-> 0]

FixedThreshold(v) == [given |-> TRUE, value |-> v]

\* Python's s[i:j] for 0 <= i (0-based, j exclusive, clipped to the list).
Slice(s, i, j) == SubSeq(s, i + 1, Min(j, Len(s)))

\* d.update(e): e's entries win.
DictUpdate(d, e) ==
    [k \in DOMAIN d \cup DOMAIN e |-> IF k \in DOMAIN e THEN e[k] ELSE d[k]]

\* d[k] = v
DictSet(d, k, v) ==
    [j \in DOMAIN d \cup {k} |-> IF j = k THEN v ELSE d[j]]

\* range(0, n, step) as the list of its start offsets.
RangeStarts(n, step) == [b \in 1..((n + step - 1) \div step) |-> (b - 1) * step]

\* The task list of fetch_all_ohlc_parallel: all_pairs[i:i + batch_size] per start i.
MakeBatches(pairs, size) ==
    LET starts == RangeStarts(Len(pairs), size)
    IN  [b \in DOMAIN starts |-> Slice(pairs, starts[b], starts[b] + size)]

NumBatches == Len(batches)

\* Position in all_pairs of the k-th pair (1-based) of batch b.
PosOf(b, k) == (b - 1) * batch_size + k

BatchOf(p) == ((p - 1) \div batch_size) + 1

InFlightOf(b) == {p \in inflight : BatchOf(p) = b}

\* ------------------------------------------------- fetch_ohlc_batch, per request
\* `data = await response.json()` and the lines before it raise for these answers.
Raises(kind) == kind \in {"transport_error", "timeout", "malformed"}

\* `except Exception` catches every exception the request can raise.
HandledOnlyClientError(kind) == kind = "transport_error"

HandledNoTimeout(kind) == kind # "timeout"

Handled(kind) == TRUE

\* `if "result" in data: results[pair] = data["result"][key]`
StoreResult(d, pair, o) ==
    IF o.kind = "ok" THEN DictSet(d, pair, o.data) ELSE d

\* The coroutine is suspended at `async with session.get(url)` / `await
\* response.json()` until its request has ended: the next iteration starts after it.
CanIssueNoAwait(b) == TRUE

CanIssue(b) == InFlightOf(b) = {}

\* The for loop goes on with the next pair whatever the request did: c iterations
\* are started, of n.
AfterAttemptBreak(c, n, kind) == IF kind = "ok" THEN c ELSE n

AfterAttempt(c, n, kind) == c

\* ------------------------------------------------- fetch_all_ohlc_parallel
\* asyncio.gather resumes its awaiter when every task has returned.
GatherFirstCompleted == NumBatches = 0 \/ \E b \in 1..NumBatches : bstate[b] = "returned"

GatherDone == \A b \in 1..NumBatches : bstate[b] = "returned"

\* gather (return_exceptions=False) hands the first exception of a task to its awaiter.
GatherRaised == \E b \in 1..NumBatches : bstate[b] = "raised"

RECURSIVE MergeUpTo(_, _)
\* `for batch in results: ohlc_data.update(batch)`, in task order.
MergeUpTo(res, n) ==
    IF n = 0 THEN EmptyDict ELSE DictUpdate(MergeUpTo(res, n - 1), res[n])

MergeAll(res) == MergeUpTo(res, Len(res))

\* ------------------------------------------------------------- actions
\* Lines 87-91: the tasks are built and gathered.
Dispatch ==
    /\ fpc = "idle"
    /\ fpc' = "gathering"
    /\ batches' = MakeBatches(all_pairs, batch_size)
    /\ cursor' = [b \in DOMAIN batches' |-> 0]
    /\ bstate' = [b \in DOMAIN batches' |-> "running"]
    /\ results' = [b \in DOMAIN batches' |-> EmptyDict]
    /\ UNCHANGED <<all_pairs, batch_size, outcome, inflight, completed, requests,
                   finished, ohlc_data>>
    /\ UNCHANGED <<otherVars, anVars, mainVars>>

\* Lines 67-74: task b starts the next iteration of its loop and sends the request.
Issue(b) ==
    /\ fpc \in {"gathering", "returned", "raised"}
    /\ bstate[b] = "running"
    /\ CanIssue(b)
    /\ cursor[b] < Len(batches[b])
    /\ LET p == PosOf(b, cursor[b] + 1)
       IN  /\ inflight' = inflight \cup {p}
           /\ requests' = [requests EXCEPT ![p] = @ + 1]
    /\ cursor' = [cursor EXCEPT ![b] = @ + 1]
    /\ UNCHANGED <<all_pairs, batch_size, outcome, fpc, batches, bstate, results,
                   completed, finished, ohlc_data>>
    /\ UNCHANGED <<otherVars, anVars, mainVars>>

\* Lines 74-80: the request for position p ends; the answer is stored, or the
\* exception is logged by the handler, or it leaves the coroutine.
Complete(p) ==
    /\ p \in inflight
    /\ LET b == BatchOf(p)
           o == outcome[p]
           escapes == Raises(o.kind) /\ ~Handled(o.kind)
       IN  /\ bstate[b] = "running"
           /\ results' = [results EXCEPT ![b] = StoreResult(@, all_pairs[p], o)]
           /\ bstate' = [bstate EXCEPT ![b] = IF escapes THEN "raised" ELSE @]
           /\ cursor' = [cursor EXCEPT
                           ![b] = AfterAttempt(@, Len(batches[b]), o.kind)]
    /\ inflight' = inflight \ {p}
    /\ completed' = completed \cup {p}
    /\ UNCHANGED <<all_pairs, batch_size, outcome, fpc, batches, requests,
                   finished, ohlc_data>>
    /\ UNCHANGED <<otherVars, anVars, mainVars>>

\* Line 81: the loop of task b is over and the task returns its dict.
ReturnBatch(b) ==
    /\ bstate[b] = "running"
    /\ cursor[b] = Len(batches[b])
    /\ InFlightOf(b) = {}
    /\ bstate' = [bstate EXCEPT ![b] = "returned"]
    /\ finished' = Append(finished, b)
    /\ UNCHANGED <<all_pairs, batch_size, outcome, fpc, batches, cursor, results,
                   inflight, completed, requests, ohlc_data>>
    /\ UNCHANGED <<otherVars, anVars, mainVars>>

\* Lines 91-95: gather hands over the tasks' dicts and they are merged, or gather
\* re-raises a task's exception.
Gather ==
    /\ fpc = "gathering"
    /\ GatherRaised \/ GatherDone
    /\ fpc' = IF GatherRaised THEN "raised" ELSE "returned"
    /\ ohlc_data' = IF GatherRaised THEN ohlc_data ELSE MergeAll(results)
    /\ UNCHANGED <<all_pairs, batch_size, outcome, batches, cursor, bstate, results,
                   inflight, completed, requests, finished>>
    /\ UNCHANGED <<otherVars, anVars, mainVars>>

(***************************************************************************)
(* Python floats (IEEE 754 binary64, round to nearest, ties to even) for   *)
(* the net gain of the legacy script, whose sign near zero is decided by   *)
(* the rounding of its three operations, and for the statistics of the     *)
(* scoring functions, where the mean of equal values need not be that      *)
(* value.  A float is sign * mant * 2^exp; mant is a natural number of     *)
(* exactly 53 bits (0 for the float 0.0), kept as limbs of 13 bits, the    *)
(* lowest first.  Subnormal numbers and infinities are out of reach of     *)
(* amounts counted in units of 0.0001; NaN is kept apart (Num, NaN).       *)
(***************************************************************************)

\* Bits of the significand of a binary64 float.
MantissaBits == 53

\* Bits of a limb and the limb's base.
LimbBits == 13

LimbBase == 2 ^ LimbBits

\* Limbs of a natural number: 130 bits, enough for the product of two
\* significands and for a price shifted by DecimalShift bits.
Limbs == 10

\* Bits by which a decimal is shifted before it is divided by PriceScale.
DecimalShift == 80

\* Prices are counted in units of 1 / PriceScale.
PriceScale == 10000

\* Natural numbers as limbs; before the carries are propagated a limb is any
\* integer.
BigNat == [1..Limbs -> Int]

BigZero == [i \in 1..Limbs |-> 0]

\* The limbs of an integer 0 <= n < 2^31.
BigOf[n \in Int] ==
    [i \in 1..Limbs |->
        IF i = 1 THEN n % LimbBase
        ELSE IF i = 2 THEN (n \div LimbBase) % LimbBase
        ELSE IF i = 3 THEN n \div (LimbBase * LimbBase)
        ELSE 0]

\* The limbs i.. of the number whose digits are x[i].. (each of any size and
\* sign) plus the carry c.
Carry[x \in BigNat, i \in Int, c \in Int] ==
    IF i > Limbs THEN <<>>
    ELSE <<(x[i] + c) % LimbBase>> \o Carry[x, i + 1, (x[i] + c) \div LimbBase]

BigAdd[x \in BigNat, y \in BigNat] == Carry[[i \in 1..Limbs |-> x[i] + y[i]], 1, 0]

\* x - y for x >= y.
BigSub[x \in BigNat, y \in BigNat] == Carry[[i \in 1..Limbs |-> x[i] - y[i]], 1, 0]

\* x[i] * y[k + 1 - i] + ... + x[k] * y[1]
ConvAt[x \in BigNat, y \in BigNat, k \in Int, i \in Int] ==
    IF i > k THEN 0 ELSE x[i] * y[k + 1 - i] + ConvAt[x, y, k, i + 1]

BigMul[x \in BigNat, y \in BigNat] == Carry[[k \in 1..Limbs |-> ConvAt[x, y, k, 1]], 1, 0]

BigPow2[s \in Int] ==
    [i \in 1..Limbs |-> IF i = (s \div LimbBits) + 1 THEN 2 ^ (s % LimbBits) ELSE 0]

\* x * 2^s
BigShl[x \in BigNat, s \in Int] == BigMul[x, BigPow2[s]]

\* x \div 2^s
BigShr[x \in BigNat, s \in Int] ==
    [i \in 1..Limbs |->
        ((IF i + (s \div LimbBits) <= Limbs THEN x[i + (s \div LimbBits)] ELSE 0)
            \div (2 ^ (s % LimbBits)))
        + ((IF i + (s \div LimbBits) + 1 <= Limbs THEN x[i + (s \div LimbBits) + 1] ELSE 0)
              % (2 ^ (s % LimbBits))) * (2 ^ (LimbBits - (s % LimbBits)))]

BigLess[x \in BigNat, y \in BigNat] ==
    \E i \in 1..Limbs : x[i] < y[i] /\ \A j \in (i + 1)..Limbs : x[j] = y[j]

\* The number of bits of x: 0 for 0.
BitLength[x \in BigNat] ==
    IF x = BigZero THEN 0
    ELSE LET top == CHOOSE i \in 1..Limbs :
                       x[i] # 0 /\ \A j \in (i + 1)..Limbs : x[j] = 0
         IN  (top - 1) * LimbBits
                + (CHOOSE k \in 1..LimbBits : 2 ^ (k - 1) <= x[top] /\ x[top] < 2 ^ k)

\* The lower limbs of a quotient, and what their division left.
LowerLimbs == [q : Seq(Int), r : Int]

\* A quotient with one more limb above the lower ones.
WithDigit[lower \in LowerLimbs, digit \in Int] ==
    [q |-> Append(lower.q, digit), r |-> lower.r]

\* Quotient and remainder of the limbs 1..i of x, with r carried in from the
\* higher limbs, by a divisor d < 2^17.
BigDivMod[x \in BigNat, d \in Int, i \in Int, r \in Int] ==
    IF i = 0 THEN [q |-> <<>>, r |-> r]
    ELSE WithDigit[BigDivMod[x, d, i - 1, (r * LimbBase + x[i]) % d],
                   (r * LimbBase + x[i]) \div d]

\* The quotient q of m by 2^s, one more when the bits dropped are more than half
\* of 2^s, or half of it with q odd or with something below the last bit.
RoundUp[m \in BigNat, q \in BigNat, s \in Int, sticky \in BOOLEAN] ==
    IF \/ BigLess[BigPow2[s - 1], BigSub[m, BigShl[q, s]]]
       \/ BigSub[m, BigShl[q, s]] = BigPow2[s - 1] /\ (sticky \/ q[1] % 2 = 1)
    THEN BigAdd[q, BigOf[1]] ELSE q

\* A significand of 53 or 54 bits brought to 53 bits.
Renormalized[q \in BigNat, s \in Int] ==
    IF BitLength[q] > MantissaBits
    THEN [mant |-> BigShr[q, 1], shift |-> s + 1]
    ELSE [mant |-> q, shift |-> s]

\* m of the given number of bits (with something below its last bit when
\* sticky) rounded to 53 bits, to nearest and to even on a tie: the significand
\* and the bits dropped.
RoundBits[m \in BigNat, bits \in Int, sticky \in BOOLEAN] ==
    IF bits <= MantissaBits
    THEN [mant |-> BigShl[m, MantissaBits - bits], shift |-> bits - MantissaBits]
    ELSE Renormalized[RoundUp[m, BigShr[m, bits - MantissaBits],
                              bits - MantissaBits, sticky],
                      bits - MantissaBits]

RoundToNearestEven[m \in BigNat, sticky \in BOOLEAN] ==
    RoundBits[m, BitLength[m], sticky]

Floats == [sign : {-1, 0, 1}, mant : BigNat, exp : Int]

FloatZero == [sign |-> 0, mant |-> BigZero, exp |-> 0]

\* A significand of 53 bits and the number of bits dropped to get it.
Rounded == [mant : BigNat, shift : Int]

\* The float sign * r.mant * 2^(e + r.shift).
Shifted[sign \in {-1, 1}, r \in Rounded, e \in Int] ==
    [sign |-> sign, mant |-> r.mant, exp |-> e + r.shift]

\* The float nearest to sign * m * 2^e.
FloatOf[sign \in {-1, 1}, m \in BigNat, e \in Int, sticky \in BOOLEAN] ==
    IF m = BigZero THEN FloatZero ELSE Shifted[sign, RoundToNearestEven[m, sticky], e]

\* A quotient and the remainder of its division.
Quotients == [q : BigNat, r : Int]

\* The float nearest to sign * d.q * 2^(-DecimalShift), d.r being what the
\* division left.
FloatOfQuotient[sign \in {-1, 1}, d \in Quotients] ==
    FloatOf[sign, d.q, 0 - DecimalShift, d.r # 0]

\* float("..."), astype(float): the float nearest to n / 10000.
FloatOfDecimal[n \in Int] ==
    IF n = 0 THEN FloatZero
    ELSE FloatOfQuotient[IF n < 0 THEN -1 ELSE 1,
                         BigDivMod[BigShl[BigOf[IF n < 0 THEN 0 - n ELSE n], DecimalShift],
                                   PriceScale, Limbs, 0]]

\* x * y
FloatMul[x \in Floats, y \in Floats] ==
    IF x.sign = 0 \/ y.sign = 0 THEN FloatZero
    ELSE FloatOf[x.sign * y.sign, BigMul[x.mant, y.mant], x.exp + y.exp, FALSE]

\* sx * a * 2^e + sy * b * 2^e for two signs and two natural numbers.
FloatOfSum[sx \in {-1, 1}, a \in BigNat, sy \in {-1, 1}, b \in BigNat, e \in Int] ==
    IF sx # sy /\ a = b THEN FloatZero
    ELSE FloatOf[IF sx = sy \/ BigLess[b, a] THEN sx ELSE sy,
                 IF sx = sy THEN BigAdd[a, b]
                 ELSE IF BigLess[b, a] THEN BigSub[a, b] ELSE BigSub[b, a],
                 e, FALSE]

\* x + y; an operand more than 64 bits below the other one does not change it.
FloatAdd[x \in Floats, y \in Floats] ==
    IF x.sign = 0 THEN y
    ELSE IF y.sign = 0 THEN x
    ELSE IF x.exp - y.exp > 64 THEN x
    ELSE IF y.exp - x.exp > 64 THEN y
    ELSE FloatOfSum[x.sign, IF x.exp < y.exp THEN x.mant
                            ELSE BigShl[x.mant, x.exp - y.exp],
                    y.sign, IF x.exp < y.exp THEN BigShl[y.mant, y.exp - x.exp]
                            ELSE y.mant,
                    IF x.exp < y.exp THEN x.exp ELSE y.exp]

\* x - y
FloatSub[x \in Floats, y \in Floats] ==
    FloatAdd[x, [sign |-> 0 - y.sign, mant |-> y.mant, exp |-> y.exp]]

\* abs(x)
FloatAbs[x \in Floats] ==
    [sign |-> IF x.sign = 0 THEN 0 ELSE 1, mant |-> x.mant, exp |-> x.exp]

\* x < y for two floats that are not 0 and not negative.
MagnitudeLess[x \in Floats, y \in Floats] ==
    x.exp < y.exp \/ (x.exp = y.exp /\ BigLess[x.mant, y.mant])

\* x < y
FloatLess[x \in Floats, y \in Floats] ==
    IF x.sign # y.sign THEN x.sign < y.sign
    ELSE IF x.sign = 0 THEN FALSE
    ELSE IF x.sign = 1 THEN MagnitudeLess[x, y]
    ELSE MagnitudeLess[y, x]

\* The number x with its limbs moved up by one and the limb c below them.
BigPush[x \in BigNat, c \in Int] == [i \in 1..Limbs |-> IF i = 1 THEN c ELSE x[i - 1]]

\* x * c for a limb c
BigScale[x \in BigNat, c \in Int] == Carry[[i \in 1..Limbs |-> x[i] * c], 1, 0]

\* The digit r \div d of a long division, for r < d * LimbBase: the largest of
\* qhat, qhat - 1 and qhat - 2 whose product with d is at most r.
QuotientDigit[r \in BigNat, d \in BigNat, qhat \in Int] ==
    IF ~BigLess[r, BigScale[d, qhat]] THEN qhat
    ELSE IF ~BigLess[r, BigScale[d, qhat - 1]] THEN qhat - 1
    ELSE qhat - 2

\* What a long division has done so far: the limbs of the quotient found,
\* lowest first, and what is left to divide.
LongDivState == [q : Seq(Int), r : BigNat]

\* The state after the limb digit of the quotient, left being what was left
\* to divide with the next limb of the dividend brought down.
LongDivRest[done \in LongDivState, d \in BigNat, left \in BigNat, digit \in Int] ==
    [q |-> <<digit>> \o done.q, r |-> BigSub[left, BigScale[d, digit]]]

\* One limb of the quotient: the digit is estimated from the two highest
\* limbs of what is left and the highest limb of d, capped at the largest
\* limb, which overshoots by 2 at most.
LongDivLimb[done \in LongDivState, d \in BigNat, left \in BigNat] ==
    LongDivRest[done, d, left,
                QuotientDigit[left, d,
                              IF (left[6] * LimbBase + left[5]) \div d[5] < LimbBase
                              THEN (left[6] * LimbBase + left[5]) \div d[5]
                              ELSE LimbBase - 1]]

\* Long division of the limbs i..1 of n, the limbs above them done, by a
\* divisor d of 5 limbs whose highest is at least half the base.  r of the
\* result is 0 when the division comes out even.
BigLongDiv[n \in BigNat, d \in BigNat, i \in Int, done \in LongDivState] ==
    IF i = 0 THEN [q |-> done.q, r |-> IF done.r = BigZero THEN 0 ELSE 1]
    ELSE BigLongDiv[n, d, i - 1, LongDivLimb[done, d, BigPush[done.r, n[i]]]]

\* The float nearest to sign * d.q * 2^e, d.r being what the division left.
FloatOfBits[sign \in {-1, 1}, d \in Quotients, e \in Int] ==
    FloatOf[sign, d.q, e, d.r # 0]

\* x / y for y other than 0: the significand of x, shifted by 65 bits, is
\* divided by that of y (both shifted 12 bits more, which fills the highest
\* limb of the divisor), and the quotient of 65 or 66 bits is rounded.
FloatDiv[x \in Floats, y \in Floats] ==
    IF x.sign = 0 THEN FloatZero
    ELSE FloatOfBits[x.sign * y.sign,
                     BigLongDiv[BigShl[x.mant, 77], BigShl[y.mant, 12], Limbs,
                                [q |-> <<>>, r |-> BigZero]],
                     x.exp - y.exp - 65]

\* The root with the bit that makes it larger, when the square of that is at
\* most n.
BigRootBit[n \in BigNat, root \in BigNat, larger \in BigNat] ==
    IF BigLess[n, BigMul[larger, larger]] THEN root ELSE larger

\* The largest natural number whose square is at most n, built on root by
\* trying the bits from 2^b down.
BigRoot[n \in BigNat, root \in BigNat, b \in Int] ==
    IF b < 0 THEN root
    ELSE BigRoot[n, BigRootBit[n, root, BigAdd[root, BigPow2[b]]], b - 1]

\* The float nearest to the square root of n * 2^(2 * h), root being the
\* largest natural number whose square is at most n.
FloatOfRoot[n \in BigNat, root \in BigNat, h \in Int] ==
    FloatOf[1, root, h, BigMul[root, root] # n]

\* np.sqrt(x) for x >= 0: the significand, doubled when the exponent is odd,
\* is shifted to 111 or 112 bits and its root of 56 bits rounded.
FloatSqrt[x \in Floats] ==
    IF x.sign = 0 THEN FloatZero
    ELSE FloatOfRoot[BigShl[x.mant, 58 + (x.exp % 2)],
                     BigRoot[BigShl[x.mant, 58 + (x.exp % 2)], BigZero, 55],
                     ((x.exp - (x.exp % 2)) \div 2) - 29]

\* ------------------------------------------------------------ fetcher spec
\* The table arbitrage_opportunities does not exist.
NoTable == [exists |-> FALSE, rows |-> <<>>]

\* A float, or the float that is not a number: NaN.
NaN == [nan |-> TRUE, v |-> FloatZero]

Num(x) == [nan |-> FALSE, v |-> x]

\* A DataFrame without columns and rows.
EmptyFrame == [columns |-> {}, rows |-> <<>>]

\* save_to_database is not being called.
StoreOff ==
    /\ st_pc = "off"
    /\ db_table = NoTable
    /\ st_calls = 0
    /\ st_df = <<>>
    /\ st_load = "ok"
    /\ st_write = "ok"
    /\ st_before = NoTable

\* No scoring function is being called.
ScorerOff ==
    /\ sc_pc = "off"
    /\ sc_script = "tuner"
    /\ sc_df = EmptyFrame
    /\ sc_in = EmptyFrame
    /\ sc_call = ""
    /\ sc_mean = NaN
    /\ sc_std = NaN
    /\ sc_k = 0
    /\ sc_ret = <<>>

\* No threshold is being resolved.
CalibratorOff ==
    /\ cal_pc = "off"
    /\ cal_df = EmptyFrame
    /\ cal_method = ""
    /\ cal_value = 0
    /\ cal_n = 0
    /\ cal_top = <<>>
    /\ cal_strategy = <<>>

\* The main of arb_backtest_tuner.py is not running.
TunerOff ==
    /\ tu_pc = "off"
    /\ tu_db = EmptyFrame
    /\ tu_fee_file = <<>>
    /\ tu_df = EmptyFrame
    /\ tu_fees = EmptyFrame
    /\ tu_stats = <<>>
    /\ tu_log = <<>>
    /\ tu_steps = <<>>
    /\ tu_ret = <<>>

\* The cache is not used.
CacheOff ==
    /\ clock = 0
    /\ cache_files = <<>>
    /\ last_saved = <<>>
    /\ ca_call = <<>>
    /\ ca_calls = 0
    /\ km_pc = "off"
    /\ km_interval = 0
    /\ km_pairs = <<>>
    /\ km_i = 0
    /\ km_data = <<>>
    /\ km_iters = <<>>

OthersOff == StoreOff /\ ScorerOff /\ CalibratorOff /\ TunerOff /\ CacheOff

\* The analyzer is not being called on its own.
AnalyzerOff ==
    /\ an_pc = "off"
    /\ an_a = None
    /\ an_b = None
    /\ an_threshold = NoThreshold
    /\ an_df = <<>>
    /\ an_out = <<>>
    /\ an_rev = <<>>

\* No main() is running.
MainOff ==
    /\ variant = "backtest"
    /\ mpc = "off"
    /\ catalog_answer = [kind |-> "ok", n |-> 0]
    /\ pairs_found = <<>>
    /\ selected_pairs = <<>>
    /\ report = ""
    /\ ohlc_frames = EmptyDict
    /\ ci = 0
    /\ cj = 0
    /\ processed_pairs = {}
    /\ considered = <<>>
    /\ analyzer_calls = <<>>
    /\ all_results = <<>>
    /\ csv_rows = <<>>

PairLists == {SubSeq(Catalog, 1, n) : n \in 0..MaxPairs}

InitFetch ==
    /\ all_pairs \in PairLists
    /\ batch_size \in 1..MaxBatch
    /\ outcome \in [1..Len(all_pairs) -> Outcomes]
    /\ fpc = "idle"
    /\ batches = <<>>
    /\ cursor = <<>>
    /\ bstate = <<>>
    /\ results = <<>>
    /\ inflight = {}
    /\ completed = {}
    /\ requests = [p \in 1..Len(all_pairs) |-> 0]
    /\ finished = <<>>
    /\ ohlc_data = EmptyDict
    /\ AnalyzerOff
    /\ MainOff
    /\ OthersOff

NextFetch ==
    \/ Dispatch
    \/ \E b \in 1..NumBatches : Issue(b)
    \/ \E p \in 1..Len(all_pairs) : Complete(p)
    \/ \E b \in 1..NumBatches : ReturnBatch(b)
    \/ Gather

SpecFetch == InitFetch /\ [][NextFetch]_vars

\* The event loop runs a task that is ready, and every request ends (an answer, a
\* transport error, or the session's total timeout).
FairSpecFetch == SpecFetch /\ WF_vars(NextFetch)

(***************************************************************************)
(* Part 2: the candle normalizer (process_ohlc_data) and the pairwise      *)
(* analyzer (backtest_and_compare).  Money is counted in units of 0.0001,  *)
(* so that the fees (0.0026) and the closes are integers.                  *)
(***************************************************************************)

\* float(text) for the close prices the payloads carry, in units of 0.0001.
ParseFloat(text) ==
    CASE text = "1.0"   -> 10000
      [] text = "1.02"  -> 10200
      [] text = "3.0"   -> 30000
      [] text = "95.0"  -> 950000
      [] text = "100.0" -> 1000000
      [] text = "101.0" -> 1010000
      [] text = "102.0" -> 1020000

\* pd.to_datetime(t, unit="s"): a timestamp value, no longer an integer.
ToDatetime(t) == [epoch_s |-> t]

\* Lines 105-110: the frame of a payload, every row tagged with the pair.
NormalizeRows(ohlc, pair_name) ==
    [i \in 1..Len(ohlc) |->
        [time |-> ToDatetime(ohlc[i].time),
         close |-> ParseFloat(ohlc[i].close),
         pair |-> pair_name]]

\* process_ohlc_data: None for fewer than 2 rows, else the frame.
ProcessOhlcDataNoMinimum(ohlc, pair_name) ==
    IF Len(ohlc) < 1 THEN None
    ELSE [none |-> FALSE, rows |-> NormalizeRows(ohlc, pair_name)]

ProcessOhlcData(ohlc, pair_name) ==
    IF Len(ohlc) < 2 THEN None
    ELSE [none |-> FALSE, rows |-> NormalizeRows(ohlc, pair_name)]

\* The fee table read from trade_fees.csv, TakerFee% / 100, in units of 0.0001.
TradeFees == [p \in {"XBTUSD", "ETHUSD"} |-> IF p = "XBTUSD" THEN 16 ELSE 40]

\* The fee used for a pair the table does not list (0.0026).
DefaultFee == 26

\* trade_fees.at[pair, "taker_fee"] if pair in trade_fees.index else 0.0026
TakerFee(pair) == IF pair \in DOMAIN TradeFees THEN TradeFees[pair] ELSE DefaultFee

Abs(x) == IF x < 0 THEN -x ELSE x

RECURSIVE Gcd(_, _)
Gcd(a, b) == IF b = 0 THEN a ELSE Gcd(b, a % b)

RECURSIVE SumSeq(_, _)
\* The sum of the first n entries of a list of integers.
SumSeq(xs, n) == IF n = 0 THEN 0 ELSE SumSeq(xs, n - 1) + xs[n]

RECURSIVE GcdSeq(_, _)
GcdSeq(xs, n) == IF n = 0 THEN 0 ELSE Gcd(GcdSeq(xs, n - 1), Abs(xs[n]))

RECURSIVE MatchRows(_, _, _)
\* The rows of the right frame with the left row's time, joined to it, in the
\* right frame's order.
MatchRows(ra, b, j) ==
    IF j > Len(b) THEN <<>>
    ELSE (IF b[j].time = ra.time
          THEN << [time |-> ra.time, close_a |-> ra.close, close_b |-> b[j].close] >>
          ELSE <<>>) \o MatchRows(ra, b, j + 1)

RECURSIVE MergeFrom(_, _, _)
\* The inner join from the left frame's i-th row on: a left row without a
\* partner in the right frame contributes no row.
MergeFrom(a, b, i) ==
    IF i > Len(a) THEN <<>> ELSE MatchRows(a[i], b, 1) \o MergeFrom(a, b, i + 1)

RECURSIVE MergeLeftFrom(_, _, _)
\* A left join, which the analyzer does not perform: an unmatched left row is
\* kept.  It serves only as the alternative against which the inner join is
\* tested.
MergeLeftFrom(a, b, i) ==
    IF i > Len(a) THEN <<>>
    ELSE (IF MatchRows(a[i], b, 1) = <<>>
          THEN << [time |-> a[i].time, close_a |-> a[i].close, close_b |-> a[i].close] >>
          ELSE MatchRows(a[i], b, 1)) \o MergeLeftFrom(a, b, i + 1)

MergeLeft(a, b) == MergeLeftFrom(a, b, 1)

\* pd.merge(df_a, df_b, on="time", suffixes=("_a", "_b")): the inner join, in the
\* order of the left frame's rows.
Merge(a, b) == MergeFrom(a, b, 1)

\* abs(df["close_a"] - df["close_b"])
DiscrepancySigned(close_a, close_b) == close_a - close_b

Discrepancy(close_a, close_b) == Abs(close_a - close_b)

\* df["discrepancy"] - (fee_a + fee_b)
AdjustedOneFee(discrepancy, fee_a, fee_b) == discrepancy - fee_a

Adjusted(discrepancy, fee_a, fee_b) == discrepancy - (fee_a + fee_b)

\* Lines 117-123: the joined table with its two discrepancy columns.
JoinedTable(df_a, df_b) ==
    LET df == Merge(df_a.rows, df_b.rows)
        fee_a == TakerFee(df_a.rows[1].pair)
        fee_b == TakerFee(df_b.rows[1].pair)
    IN  [i \in 1..Len(df) |->
            [time |-> df[i].time,
             close_a |-> df[i].close_a,
             close_b |-> df[i].close_b,
             discrepancy |-> Discrepancy(df[i].close_a, df[i].close_b),
             adjusted_discrepancy |->
                 Adjusted(Discrepancy(df[i].close_a, df[i].close_b), fee_a, fee_b)]]

\* n * x - sum(xs) for each x of xs: n times the deviation from the mean.
Deviations(xs) ==
    LET n == Len(xs)
        total == SumSeq(xs, n)
    IN  [i \in 1..n |-> n * xs[i] - total]

RECURSIVE SumSquares(_, _, _)
SumSquares(es, g, n) ==
    IF n = 0 THEN 0 ELSE SumSquares(es, g, n - 1) + (es[n] \div g) * (es[n] \div g)

\* xs[i] > mean(xs) + k * std(xs), std the sample standard deviation pandas
\* computes (divisor n - 1; NaN, and the comparison false, for n < 2).  With
\* e = n * x - sum: e[i] > 0 and e[i]^2 * (n - 1) > k^2 * sum(e^2).  The deviations
\* are divided by their gcd first, which leaves the comparison as it is and keeps
\* the squares small: the comparison is exact as long as k^2 times the sum of the
\* reduced squares stays below 2^31, which TLC reports when it does not.
AboveMeanPlusStd(xs, i, k) ==
    LET n == Len(xs)
        es == Deviations(xs)
        g == GcdSeq(es, n)
    IN  /\ n >= 2
        /\ es[i] > 0
        /\ (es[i] \div g) * (es[i] \div g) * (n - 1) > k * k * SumSquares(es, g, n)

\* Lines 126-132: adjusted_discrepancy > entry_threshold, the threshold being
\* mean + 2 * std of this table's own adjusted discrepancies when none is given.
AboveEntryThresholdGlobalLevel(table, i, entry_threshold) ==
    table[i].adjusted_discrepancy >
        (IF entry_threshold.given THEN entry_threshold.value ELSE 10000)

AboveEntryThreshold(table, i, entry_threshold) ==
    IF entry_threshold.given
    THEN table[i].adjusted_discrepancy > entry_threshold.value
    ELSE AboveMeanPlusStd([j \in 1..Len(table) |-> table[j].adjusted_discrepancy], i, 2)

RECURSIVE ResultRows(_, _, _, _, _)
\* Lines 129-141: one record per row of the table above the threshold, in the
\* table's order.
ResultRows(table, df_a, df_b, entry_threshold, i) ==
    IF i > Len(table) THEN <<>>
    ELSE (IF AboveEntryThreshold(table, i, entry_threshold)
          THEN << [time |-> table[i].time,
                   pair_a |-> df_a.rows[1].pair,
                   pair_b |-> df_b.rows[1].pair,
                   adjusted_discrepancy |-> table[i].adjusted_discrepancy,
                   raw_discrepancy |-> table[i].discrepancy,
                   fee_a |-> TakerFee(df_a.rows[1].pair),
                   fee_b |-> TakerFee(df_b.rows[1].pair)] >>
          ELSE <<>>) \o ResultRows(table, df_a, df_b, entry_threshold, i + 1)

\* backtest_and_compare(df_a, df_b, entry_threshold)
BacktestAndCompare(df_a, df_b, entry_threshold) ==
    ResultRows(JoinedTable(df_a, df_b), df_a, df_b, entry_threshold, 1)

\* ------------------------------------------- backtest_and_compare on its own
\* Most rows of the payloads enumerated in full.
MaxRows == 2

\* No fetch is running.
FetchOff ==
    /\ all_pairs = <<>>
    /\ batch_size = 1
    /\ outcome = <<>>
    /\ fpc = "off"
    /\ batches = <<>>
    /\ cursor = <<>>
    /\ bstate = <<>>
    /\ results = <<>>
    /\ inflight = {}
    /\ completed = {}
    /\ requests = <<>>
    /\ finished = <<>>
    /\ ohlc_data = EmptyDict

\* Every payload of up to MaxRows rows over two candle times and two closes: rows
\* in any order, times repeated or not.
GenericPayloads ==
    LET rows == {RawRow(t, c) : t \in {0, 15}, c \in {"100.0", "101.0"}}
    IN  UNION {[1..n -> rows] : n \in 1..MaxRows}

\* The two series of the specification's scenario.
ScenarioA == <<RawRow(0, "100.0"), RawRow(15, "102.0")>>

ScenarioB == <<RawRow(0, "101.0"), RawRow(15, "95.0")>>

\* Six candles a quarter of an hour apart: a flat series, one with a single
\* spike, and one that starts two candles later.
Flat6 == [i \in 1..6 |-> RawRow(15 * (i - 1), "1.0")]

Spike6 == [i \in 1..6 |-> RawRow(15 * (i - 1), IF i = 4 THEN "3.0" ELSE "1.0")]

Late6 == [i \in 1..6 |-> RawRow(15 * (i + 1), IF i = 2 THEN "1.02" ELSE "1.0")]

AnalyzePayloads == GenericPayloads \cup {ScenarioA, ScenarioB, Flat6, Spike6, Late6}

\* The frames the normalizer accepts for a set of payloads and pairs.
Frames(payloads, pairs) ==
    {ProcessOhlcData(raw, pair) : raw \in payloads, pair \in pairs} \ {None}

InitAnalyze ==
    /\ an_pc = "ready"
    /\ an_a \in Frames(AnalyzePayloads, {"XBTUSD", "LTCUSD"})
    /\ an_b \in Frames(AnalyzePayloads, {"ETHUSD", "XRPUSD"})
    /\ an_threshold \in {NoThreshold, FixedThreshold(0)}
    /\ an_df = <<>>
    /\ an_out = <<>>
    /\ an_rev = <<>>
    /\ FetchOff
    /\ MainOff
    /\ OthersOff

\* results = backtest_and_compare(df_a, df_b, entry_threshold)
CallCompare ==
    /\ an_pc = "ready"
    /\ an_df' = JoinedTable(an_a, an_b)
    /\ an_out' = BacktestAndCompare(an_a, an_b, an_threshold)
    /\ an_pc' = "called"
    /\ UNCHANGED <<otherVars, an_a, an_b, an_threshold, an_rev, fetchVars, mainVars>>

\* The same two frames the other way round.
CallCompareSwapped ==
    /\ an_pc = "called"
    /\ an_rev' = BacktestAndCompare(an_b, an_a, an_threshold)
    /\ an_pc' = "both"
    /\ UNCHANGED <<otherVars, an_a, an_b, an_threshold, an_df, an_out, fetchVars, mainVars>>

NextAnalyze == CallCompare \/ CallCompareSwapped

SpecAnalyze == InitAnalyze /\ [][NextAnalyze]_vars

(***************************************************************************)
(* Part 3: main() of the two arb_foresight scripts.  "backtest" is         *)
(* kraken_backtest/ARB Foresight/arb_foresight.py, "legacy" is             *)
(* ARB Foresight/arb_foresight.py (process_ohlc_data without the pair      *)
(* column, backtest_and_validate, no guards around the pair list and the   *)
(* result list).                                                           *)
(***************************************************************************)

\* Most pairs of the exchange's catalogue.
MaxCatalog == 3

\* all_pairs[:50] of the legacy main.
PairLimit == 50

\* config["profit_margin"] of the legacy script, in units of 0.0001.
ProfitMargin == 100000

\* What the exchange can do with the AssetPairs request.
CatalogAnswers ==
    {[kind |-> "ok", n |-> k] : k \in 0..MaxCatalog}
        \cup {[kind |-> "exception", n |-> 0], [kind |-> "noresult", n |-> 0]}

\* fetch_asset_pairs: the keys of "result", or [] after an exception or for a
\* body without "result".
FetchAssetPairs(answer) ==
    IF answer.kind = "ok" THEN SubSeq(Catalog, 1, answer.n) ELSE <<>>

\* A payload of one candle.
Short1 == <<RawRow(0, "1.0")>>

\* What the exchange does with the OHLC requests of a run of main.
MainOutcomes ==
    [kind : {"timeout", "noresult"}, data : {<<>>}]
        \cup [kind : {"ok"}, data : {Short1, Flat6, Spike6}]

\* Legacy process_ohlc_data: the same, without the pair column.
LegacyProcessOhlcData(ohlc) ==
    IF Len(ohlc) < 2 THEN None
    ELSE [none |-> FALSE,
          rows |-> [i \in 1..Len(ohlc) |->
                      [time |-> ToDatetime(ohlc[i].time),
                       close |-> ParseFloat(ohlc[i].close)]]]

\* The frame main keeps for a fetched payload.
FrameOf(v, data, pair) ==
    IF v = "backtest" THEN ProcessOhlcData(data, pair) ELSE LegacyProcessOhlcData(data)

\* ohlc_frames: the pairs whose frame is neither None nor empty.
BuildFrames(v, data) ==
    [pair \in {k \in DOMAIN data :
                  /\ FrameOf(v, data[k], k) # None
                  /\ FrameOf(v, data[k], k).rows # <<>>} |-> FrameOf(v, data[pair], pair)]

\* total_fees = fees * 2 with fees = 0.0026
TotalFees == FloatMul[FloatOfDecimal[DefaultFee], FloatOfDecimal[2 * PriceScale]]

\* The net gain with entry and exit taken the other way round.
NetGainReversed(entry_price, exit_price) ==
    FloatAdd[FloatSub[FloatOfDecimal[entry_price], FloatOfDecimal[exit_price]],
             FloatMul[FloatOfDecimal[entry_price], TotalFees]]

\* calculate_required_usd, line 97: the float
\* (exit_price - entry_price) - (entry_price * total_fees)
\* for prices in units of 0.0001.
NetGain(entry_price, exit_price) ==
    FloatSub[FloatSub[FloatOfDecimal[exit_price], FloatOfDecimal[entry_price]],
             FloatMul[FloatOfDecimal[entry_price], TotalFees]]

\* calculate_required_usd: None unless the net gain is positive, else the
\* quotient profit_margin / net_gain, kept as its two terms.
CalculateRequiredUsd(profit_margin, entry_price, exit_price) ==
    IF NetGain(entry_price, exit_price).sign <= 0
    THEN [none |-> TRUE, num |-> 0, den |-> FloatZero]
    ELSE [none |-> FALSE, num |-> profit_margin, den |-> NetGain(entry_price, exit_price)]

\* `if required_usd:` is false for None and for 0.
Truthy(required_usd) == ~required_usd.none /\ required_usd.num # 0

\* discrepancy > entry_threshold * price_a for row i, entry_threshold being mean +
\* 2 * std of the discrepancies ds (in real numbers: d * 10^4 > threshold * price
\* for values counted in units of 0.0001).  With e = n * d - sum and price > = 0:
\*   L = n * d[i] * 10^4 - sum * price > 0 and L^2 * (n - 1) > 4 * price^2 * sum(e^2);
\* 10^4 and the price are divided by their gcd, then L and the price * e by theirs.
LegacyAboveEntry(ds, price_a, i) ==
    LET n == Len(ds)
        total == SumSeq(ds, n)
        es == Deviations(ds)
        g0 == Gcd(10000, price_a)
        u == 10000 \div g0
        pr == price_a \div g0
        big == n * ds[i] * u - total * pr
        ts == [j \in 1..n |-> pr * es[j]]
        h == Gcd(Abs(big), GcdSeq(ts, n))
    IN  /\ n >= 2
        /\ big > 0
        /\ (big \div h) * (big \div h) * (n - 1) > 4 * SumSquares(ts, h, n)

\* backtest_and_validate of the legacy script, called without thresholds: a row is
\* an opportunity when its discrepancy is above the entry level and
\* calculate_required_usd gives a non-zero amount; recording the first one reads
\* df_a["pair"], a column the legacy frames do not have (KeyError).
BacktestAndValidate(df_a, df_b) ==
    LET df == Merge(df_a.rows, df_b.rows)
        ds == [i \in 1..Len(df) |-> Discrepancy(df[i].close_a, df[i].close_b)]
        hit(i) ==
            /\ LegacyAboveEntry(ds, df[i].close_a, i)
            /\ Truthy(CalculateRequiredUsd(ProfitMargin, df[i].close_a,
                                           Min(df[i].close_b, df[i].close_a)))
    IN  [raised |-> \E i \in 1..Len(df) : hit(i), rows |-> <<>>]

\* The inner loop of the comparison runs over selected_pairs[i+1:].
InnerStartFromSelf(i) == i

InnerStart(i) == i + 1

RECURSIVE Concat(_, _)
\* pd.concat(all_results, ignore_index=True)
Concat(frames, n) == IF n = 0 THEN <<>> ELSE Concat(frames, n - 1) \o frames[n]

\* The call of fetch_all_ohlc_parallel(pairs): the exchange's answers are fixed
\* here, the tasks are built by Dispatch.
StartFetch(pairs) ==
    /\ all_pairs' = pairs
    /\ batch_size' \in 1..MaxBatch
    /\ outcome' \in [1..Len(pairs) -> MainOutcomes]
    /\ fpc' = "idle"
    /\ requests' = [p \in 1..Len(pairs) |-> 0]
    /\ UNCHANGED <<batches, cursor, bstate, results, inflight, completed, finished,
                   ohlc_data>>

\* What is typed at the prompt of line 157.
TypedLines == {ToString(k) : k \in (0 - 1)..(MaxCatalog + 1)} \cup {"abc", "", "2.0"}

\* input(...): a line, or EOFError at the end of the input.
Typed ==
    {[eof |-> FALSE, text |-> t] : t \in TypedLines} \cup {[eof |-> TRUE, text |-> ""]}

\* int(text) for the lines of TypedLines: the number a decimal numeral stands
\* for, ValueError for the other lines.
IntOfText(text) ==
    LET numbers == (0 - (MaxCatalog + 1))..(MaxCatalog + 1)
    IN  IF \E k \in numbers : ToString(k) = text
        THEN [raised |-> FALSE, value |-> CHOOSE k \in numbers : ToString(k) = text]
        ELSE [raised |-> TRUE, value |-> 0]

\* Python's s[:j]: a negative j counts from the end of the list.
SliceTo(s, j) ==
    IF j >= 0 THEN Slice(s, 0, j)
    ELSE IF Len(s) + j > 0 THEN Slice(s, 0, Len(s) + j) ELSE <<>>

\* backtest main, lines 146-163: the catalogue, the guard, the prompt, the slice.
\* int(input(...)) raises ValueError for a line that is no integer and EOFError
\* at the end of the input; neither is caught, and main ends before any OHLC
\* request is made.
MainStartBacktest ==
    /\ variant = "backtest"
    /\ mpc = "start"
    /\ \E answer \in CatalogAnswers, typed \in Typed :
          LET found == FetchAssetPairs(answer)
              asked == IntOfText(typed.text)
          IN  /\ catalog_answer' = answer
              /\ pairs_found' = found
              /\ IF found = <<>>
                 THEN /\ report' = "no_pairs"
                      /\ mpc' = "done"
                      /\ UNCHANGED <<selected_pairs, fetchVars>>
                 ELSE IF typed.eof \/ asked.raised
                 THEN /\ mpc' = "crashed"
                      /\ UNCHANGED <<selected_pairs, report, fetchVars>>
                 ELSE /\ selected_pairs' = SliceTo(found, Min(asked.value, Len(found)))
                      /\ mpc' = "fetching"
                      /\ StartFetch(selected_pairs')
                      /\ UNCHANGED report
    /\ UNCHANGED <<otherVars, variant, ohlc_frames, ci, cj, processed_pairs, considered,
                   analyzer_calls, all_results, csv_rows, anVars>>

\* legacy main, lines 142-153: the catalogue, the first 50 pairs, no guard.
MainStartLegacy ==
    /\ variant = "legacy"
    /\ mpc = "start"
    /\ \E answer \in CatalogAnswers :
          LET found == Slice(FetchAssetPairs(answer), 0, PairLimit)
          IN  /\ catalog_answer' = answer
              /\ pairs_found' = found
              /\ selected_pairs' = found
              /\ mpc' = "fetching"
              /\ StartFetch(found)
    /\ UNCHANGED <<otherVars, variant, report, ohlc_frames, ci, cj, processed_pairs, considered,
                   analyzer_calls, all_results, csv_rows, anVars>>

\* Lines 163-177 (legacy 153-166): the fetch is over; the frames are built and
\* the comparison loop starts, or is over at once for fewer than two pairs.
MainAfterFetch ==
    /\ mpc = "fetching"
    /\ fpc \in {"returned", "raised"}
    /\ IF fpc = "raised"
       THEN /\ mpc' = "crashed"
            /\ UNCHANGED <<ohlc_frames, ci, cj>>
       ELSE /\ ohlc_frames' = BuildFrames(variant, ohlc_data)
            /\ ci' = 1
            /\ cj' = InnerStart(1)
            /\ mpc' = IF Len(selected_pairs) - 1 >= 1 THEN "compare" ELSE "save"
    /\ UNCHANGED <<otherVars, variant, catalog_answer, pairs_found, selected_pairs, report,
                   processed_pairs, considered, analyzer_calls, all_results, csv_rows,
                   fetchVars, anVars>>

\* Where the loops stand after the iteration (i, j) over n pairs.
LoopAdvance(i, j, n) ==
    IF j < n THEN <<i, j + 1>> ELSE <<i + 1, InnerStart(i + 1)>>

\* Lines 177-190 (legacy 166-176): one iteration of the inner loop.
MainCompareStep ==
    /\ mpc = "compare"
    /\ LET n == Len(selected_pairs)
           pair_a == selected_pairs[ci]
           pair_b == selected_pairs[cj]
           seen == /\ variant = "backtest"
                   /\ \/ <<pair_a, pair_b>> \in processed_pairs
                      \/ <<pair_b, pair_a>> \in processed_pairs
           both == pair_a \in DOMAIN ohlc_frames /\ pair_b \in DOMAIN ohlc_frames
           found == IF variant = "backtest"
                    THEN [raised |-> FALSE,
                          rows |-> BacktestAndCompare(ohlc_frames[pair_a],
                                                      ohlc_frames[pair_b], NoThreshold)]
                    ELSE BacktestAndValidate(ohlc_frames[pair_a], ohlc_frames[pair_b])
           next == LoopAdvance(ci, cj, n)
       IN  /\ processed_pairs' =
                 IF variant = "backtest" /\ ~seen
                 THEN processed_pairs \cup {<<pair_a, pair_b>>} ELSE processed_pairs
           /\ considered' =
                 IF seen THEN considered ELSE Append(considered, <<pair_a, pair_b>>)
           /\ analyzer_calls' =
                 IF ~seen /\ both
                 THEN Append(analyzer_calls, <<pair_a, pair_b>>) ELSE analyzer_calls
           /\ all_results' =
                 IF ~seen /\ both /\ ~found.raised /\ found.rows # <<>>
                 THEN Append(all_results, found.rows) ELSE all_results
           /\ ci' = next[1]
           /\ cj' = next[2]
           /\ mpc' = IF ~seen /\ both /\ found.raised THEN "crashed"
                     ELSE IF next[1] > n - 1 THEN "save" ELSE "compare"
    /\ UNCHANGED <<otherVars, variant, catalog_answer, pairs_found, selected_pairs, report,
                   ohlc_frames, csv_rows, fetchVars, anVars>>

\* Lines 193-198: backtest main writes the file when there are results and says so
\* when there are none.  Legacy lines 179-181: pd.concat raises ValueError for an
\* empty list.
MainSave ==
    /\ mpc = "save"
    /\ IF all_results # <<>>
       THEN /\ csv_rows' = Concat(all_results, Len(all_results))
            /\ report' = "saved"
            /\ mpc' = "done"
       ELSE /\ csv_rows' = csv_rows
            /\ report' = IF variant = "backtest" THEN "no_discrepancies" ELSE report
            /\ mpc' = IF variant = "backtest" THEN "done" ELSE "crashed"
    /\ UNCHANGED <<otherVars, variant, catalog_answer, pairs_found, selected_pairs, ohlc_frames,
                   ci, cj, processed_pairs, considered, analyzer_calls, all_results,
                   fetchVars, anVars>>

Init ==
    /\ variant \in {"backtest", "legacy"}
    /\ mpc = "start"
    /\ catalog_answer = [kind |-> "ok", n |-> 0]
    /\ pairs_found = <<>>
    /\ selected_pairs = <<>>
    /\ report = ""
    /\ ohlc_frames = EmptyDict
    /\ ci = 0
    /\ cj = 0
    /\ processed_pairs = {}
    /\ considered = <<>>
    /\ analyzer_calls = <<>>
    /\ all_results = <<>>
    /\ csv_rows = <<>>
    /\ FetchOff
    /\ AnalyzerOff
    /\ OthersOff

Next ==
    \/ MainStartBacktest
    \/ MainStartLegacy
    \/ NextFetch
    \/ MainAfterFetch
    \/ MainCompareStep
    \/ MainSave

Spec == Init /\ [][Next]_vars

\* ------------------------------------------- runs of main over longer series
\* Candles of the series of these runs: the shortest table in which two values
\* are above mean + 2 * std of the table.
SeriesLen == 11

\* A level series, one with two spikes, the same rows latest first, one with two
\* small spikes, and one that is high except where the others spike.
Level == [i \in 1..SeriesLen |-> RawRow(15 * (i - 1), "1.0")]

TwoSpikes ==
    [i \in 1..SeriesLen |-> RawRow(15 * (i - 1), IF i \in {4, 8} THEN "3.0" ELSE "1.0")]

TwoSpikesLatestFirst == [i \in 1..SeriesLen |-> TwoSpikes[SeriesLen + 1 - i]]

SmallSpikes ==
    [i \in 1..SeriesLen |-> RawRow(15 * (i - 1), IF i \in {4, 8} THEN "1.02" ELSE "1.0")]

High ==
    [i \in 1..SeriesLen |-> RawRow(15 * (i - 1), IF i \in {4, 8} THEN "1.0" ELSE "3.0")]

\* config.get("batch_size", 10)
DefaultBatchSize == 10

\* What the exchange does with the OHLC requests of these runs.
RunOutcomes ==
    [kind : {"ok"}, data : {Level, TwoSpikes, TwoSpikesLatestFirst, SmallSpikes, High}]

\* The backtest main right after lines 146-163: the catalogue had two pairs or
\* more, the user asked for all of them, fetch_all_ohlc_parallel has been called.
InitRun ==
    /\ variant = "backtest"
    /\ mpc = "fetching"
    /\ catalog_answer \in {[kind |-> "ok", n |-> k] : k \in 2..MaxPairs}
    /\ pairs_found = FetchAssetPairs(catalog_answer)
    /\ selected_pairs = pairs_found
    /\ report = ""
    /\ ohlc_frames = EmptyDict
    /\ ci = 0
    /\ cj = 0
    /\ processed_pairs = {}
    /\ considered = <<>>
    /\ analyzer_calls = <<>>
    /\ all_results = <<>>
    /\ csv_rows = <<>>
    /\ all_pairs = selected_pairs
    /\ batch_size \in {MaxBatch, DefaultBatchSize}
    /\ outcome \in [1..Len(all_pairs) -> RunOutcomes]
    /\ fpc = "idle"
    /\ batches = <<>>
    /\ cursor = <<>>
    /\ bstate = <<>>
    /\ results = <<>>
    /\ inflight = {}
    /\ completed = {}
    /\ requests = [p \in 1..Len(all_pairs) |-> 0]
    /\ finished = <<>>
    /\ ohlc_data = EmptyDict
    /\ AnalyzerOff
    /\ OthersOff

NextRun ==
    \/ NextFetch
    \/ MainAfterFetch
    \/ MainCompareStep
    \/ MainSave

SpecRun == InitRun /\ [][NextRun]_vars

(***************************************************************************)
(* Part 4: the historical store of analyze_data.py: load_existing_data and *)
(* save_to_database over the table arbitrage_opportunities.                *)
(***************************************************************************)

\* Most rows of a batch handed to save_to_database.
MaxBatchRows == 2

\* Most calls of save_to_database in a behaviour.
MaxSaves == 2

\* to_sql stores a timestamp as text, read_sql(parse_dates=['time']) parses the
\* text back.
SqlTime(ts) == [sql_text |-> ts.epoch_s]

ParseSqlTime(x) == ToDatetime(x.sql_text)

ToSqlRow(r) == [r EXCEPT !.time = SqlTime(r.time)]

FromSqlRow(x) == [x EXCEPT !.time = ParseSqlTime(x.time)]

\* A row of the results file as load_csv reads it (the time parsed as a date).
StoreRecord(t, a, b) ==
    [time |-> ToDatetime(t), pair_a |-> a, pair_b |-> b, adjusted_discrepancy |-> 9948]

StoreRecords ==
    {StoreRecord(t, c[1], c[2]) :
        t \in {0, 15}, c \in {<<"XBTUSD", "ETHUSD">>, <<"XBTUSD", "LTCUSD">>}}

StoreBatches == UNION {[1..n -> StoreRecords] : n \in 0..MaxBatchRows}

\* What can happen to the SELECT of load_existing_data.
LoadOutcomes == {"ok", "error"}

\* load_existing_data: the rows of the table, or an empty DataFrame after any
\* exception (no such table, or the read fails).
LoadExistingData(table, load) ==
    IF load = "ok" /\ table.exists
    THEN [i \in 1..Len(table.rows) |-> FromSqlRow(table.rows[i])]
    ELSE <<>>

\* df[~df['time'].isin(historical_data['time'])]
NewDataKeepAll(df, historical) == df

NewData(df, historical) ==
    SelectSeq(df, LAMBDA r : \A i \in 1..Len(historical) : historical[i].time # r.time)

\* The rows save_to_database writes, and whether it appends them or replaces the
\* table with them (lines 53-60).
Written(df, table, load) ==
    LET historical == LoadExistingData(table, load)
    IN  IF historical # <<>>
        THEN [mode |-> "append", rows |-> NewData(df, historical)]
        ELSE [mode |-> "replace", rows |-> df]

\* What can happen to the write of save_to_database, whose exceptions line 64
\* catches and logs:
\*   ok             to_sql returns
\*   connect_error  sqlite3.connect or to_sql raises before the table is touched
\*   create_error   to_sql raises where it creates the table: if_exists='replace'
\*                  has dropped the table that was there
\*   insert_error   to_sql raises in its INSERT, which is rolled back: an append
\*                  adds nothing, a replace leaves the new table without rows
WriteOutcomes == {"ok", "connect_error", "create_error", "insert_error"}

\* The table after save_to_database(df, db_file).
SaveToDatabase(df, table, load, write) ==
    LET w == Written(df, table, load)
        sql == [i \in 1..Len(w.rows) |-> ToSqlRow(w.rows[i])]
    IN  IF write = "ok"
        THEN [exists |-> TRUE,
              rows |-> IF w.mode = "append" THEN table.rows \o sql ELSE sql]
        ELSE IF w.mode = "replace" /\ write = "create_error" THEN NoTable
        ELSE IF w.mode = "replace" /\ write = "insert_error"
        THEN [exists |-> TRUE, rows |-> <<>>]
        ELSE table

\* save_to_database(new_data, DB_FILE)
Save ==
    /\ st_pc = "ready"
    /\ st_calls < MaxSaves
    /\ \E df \in StoreBatches, load \in LoadOutcomes, write \in WriteOutcomes :
          /\ st_df' = df
          /\ st_load' = load
          /\ st_write' = write
          /\ st_before' = db_table
          /\ db_table' = SaveToDatabase(df, db_table, load, write)
    /\ st_calls' = st_calls + 1
    /\ UNCHANGED <<st_pc, fetchVars, anVars, mainVars, scoreVars, calVars, tunerVars,
                   cacheVars>>

InitStore ==
    /\ st_pc = "ready"
    /\ db_table = NoTable
    /\ st_calls = 0
    /\ st_df = <<>>
    /\ st_load = "ok"
    /\ st_write = "ok"
    /\ st_before = NoTable
    /\ FetchOff
    /\ AnalyzerOff
    /\ MainOff
    /\ ScorerOff
    /\ CalibratorOff
    /\ TunerOff
    /\ CacheOff

NextStore == Save

SpecStore == InitStore /\ [][NextStore]_vars

(***************************************************************************)
(* Part 5: the scoring functions of arb_backtest_tuner.py                  *)
(* (validate_and_normalize_data, calculate_profit,                         *)
(* backtest_trades_with_weights, optimize_thresholds) and                  *)
(* backtest_trades_with_weights of enhanced_analysis.py.  A table is a set *)
(* of column names and a list of rows, each row a function of the columns. *)
(* Discrepancies and fees are in units of 0.0001, a cell n being the float *)
(* nearest to n / 10000; the profits, the mean, the standard deviation,    *)
(* the threshold value and the weights are the floats the code computes.   *)
(***************************************************************************)

\* Most rows of a table whose adjusted discrepancies are all equal.
MaxScoreRows == 3

\* A column of a table as a list.
Column(df, c) == [i \in 1..Len(df.rows) |-> df.rows[i][c]]

\* df[c] = values: the column is added, or overwritten, in the caller's table.
SetColumn(df, c, values) ==
    [columns |-> df.columns \cup {c},
     rows |-> [i \in 1..Len(df.rows) |->
                 [d \in df.columns \cup {c} |->
                     IF d = c THEN values[i] ELSE df.rows[i][d]]]]

\* NaN in a cell of a numeric column (a blank of trade_fees.csv, a row the left
\* merge found no fees for): a number no cell of the tables holds.
NaNCell == -999999999

\* np.clip: NaN stays NaN.
Clip(x, lo, hi) ==
    IF x = NaNCell THEN x ELSE IF x < lo THEN lo ELSE IF x > hi THEN hi ELSE x

\* The cells of a numeric column that are numbers, as the floats they are in
\* the table: the cell n is the float nearest to n / 10000, and mean(), std()
\* and sum() skip NaN.
FloatsOf(xs) ==
    LET ys == SelectSeq(xs, LAMBDA x : x # NaNCell)
    IN  [i \in 1..Len(ys) |-> FloatOfDecimal[ys[i]]]

\* A count of rows, or a whole multiplier, as a float.
FloatOfCount(n) == FloatOfDecimal[n * PriceScale]

FloatSeqs == Seq(Floats)

\* ndarray.sum() of fewer than 8 floats: they are added one after the other.
FloatSum[fs \in FloatSeqs, n \in Int] ==
    IF n = 0 THEN FloatZero ELSE FloatAdd[FloatSum[fs, n - 1], fs[n]]

\* (avg - values) ** 2
Squared[x \in Floats] == FloatMul[x, x]

SquaredDeviations[fs \in FloatSeqs, avg \in Floats] ==
    [i \in 1..Len(fs) |-> Squared[FloatSub[avg, fs[i]]]]

\* Series.mean() of the values: their sum over their count, NaN for no value.
SeriesMean[fs \in FloatSeqs] ==
    IF Len(fs) = 0 THEN NaN
    ELSE Num(FloatDiv[FloatSum[fs, Len(fs)], FloatOfCount(Len(fs))])

\* The square root of the sum of the squared deviations over count - 1.
RootOfMeanSquare[sqr \in FloatSeqs] ==
    FloatSqrt[FloatDiv[FloatSum[sqr, Len(sqr)], FloatOfCount(Len(sqr) - 1)]]

\* Series.std() of the values: the sample standard deviation as pandas
\* computes it, NaN for fewer than 2 values: the mean, then the sum of the
\* squared deviations from it over count - 1, then the square root.
SeriesStd[fs \in FloatSeqs] ==
    IF Len(fs) < 2 THEN NaN
    ELSE Num(RootOfMeanSquare[SquaredDeviations[fs, SeriesMean[fs].v]])

\* The cells of the profit column that are numbers: mean(), std() and sum()
\* skip NaN.
FloatValues(cells) ==
    LET ys == SelectSeq(cells, LAMBDA x : ~x.nan)
    IN  [i \in 1..Len(ys) |-> ys[i].v]

\* A cell of a numeric column as the float, or the NaN, it is in the table.
FloatCell[n \in Int] == IF n = NaNCell THEN NaN ELSE Num(FloatOfDecimal[n])

\* adjusted_discrepancy * volume_a - (fee_a + fee_b) * volume_a in floats, for
\* the cells of a row: the product, the sum of the fees, its product with the
\* volume and the difference are each rounded; NaN when a cell is NaN.  The
\* tuner writes the second product as volume_a * (TakerFee + MakerFee), which
\* is the same float.
ProfitAfterFees[adj \in Int, volume \in Int, fee_a \in Int, fee_b \in Int] ==
    IF NaNCell \in {adj, volume, fee_a, fee_b} THEN NaN
    ELSE Num(FloatSub[FloatMul[FloatOfDecimal[adj], FloatOfCount(volume)],
                      FloatMul[FloatAdd[FloatOfDecimal[fee_a], FloatOfDecimal[fee_b]],
                               FloatOfCount(volume)]])

\* df['profit'] = df['adjusted_discrepancy']: the floats of that column.
ProxyProfit(df) ==
    [i \in 1..Len(df.rows) |-> FloatCell[df.rows[i]["adjusted_discrepancy"]]]

\* Series.mean()
MeanOf(xs) == SeriesMean[FloatsOf(xs)]

\* Series.std()
StdOf(xs) == SeriesStd[FloatsOf(xs)]

\* A float or NaN.
FloatCells == [nan : BOOLEAN, v : Floats]

\* mean + threshold * std_dev
ThresholdValue[threshold \in Floats, mean \in FloatCells, std \in FloatCells] ==
    IF mean.nan \/ std.nan THEN NaN
    ELSE Num(FloatAdd[mean.v, FloatMul[threshold, std.v]])

\* df['adjusted_discrepancy'] > threshold_value (false for NaN), for the
\* adjusted discrepancy of a cell.
Exceeds[adj \in Int, tv \in FloatCells] ==
    ~tv.nan /\ FloatLess[tv.v, FloatOfDecimal[adj]]

\* A weight: exp(-ratio) for a float ratio, exp(-infinity) = 0 ("zero"), or NaN.
Weight(kind, ratio) == [kind |-> kind, ratio |-> ratio]

\* np.clip(ratio, 0, 10) in the tuner, for a ratio that is not negative.
ClippedRatio[script \in STRING, ratio \in Floats, high \in Floats] ==
    IF script = "tuner" /\ FloatLess[high, ratio] THEN high ELSE ratio

\* The weight of a row at a distance from the threshold value, for a std_dev
\* that is a number.
WeightAt[script \in STRING, distance \in Floats, std \in Floats] ==
    IF std.sign # 0
    THEN Weight("exp", ClippedRatio[script, FloatDiv[distance, std], FloatOfCount(10)])
    ELSE IF distance.sign = 0 THEN Weight("nan", FloatZero)
    ELSE IF script = "tuner" THEN Weight("exp", FloatOfCount(10))
    ELSE Weight("zero", FloatZero)

\* np.exp(-np.clip(abs(adj - threshold_value) / std_dev, 0, 10)) in the tuner,
\* np.exp(-abs(adj - threshold_value) / std_dev) in enhanced_analysis: 0/0 is NaN,
\* x/0 is infinity, which the clip brings to 10.
WeightOf[script \in STRING, adj \in Int, tv \in FloatCells, std \in FloatCells] ==
    IF tv.nan \/ std.nan THEN Weight("nan", FloatZero)
    ELSE WeightAt[script, FloatAbs[FloatSub[FloatOfDecimal[adj], tv.v]], std.v]

\* df[df['adjusted_discrepancy'] > threshold_value]
FilterAbove(df, tv) ==
    [columns |-> df.columns,
     rows |-> SelectSeq(df.rows, LAMBDA r : Exceeds[r["adjusted_discrepancy"], tv])]

\* (filtered_trades['profit'] * filtered_trades['weight']).sum(): the terms of
\* the sum, profit and weight; products that are NaN are skipped, and the sum of
\* no term is 0.
WeightedSum(trades) ==
    LET terms == [i \in 1..Len(trades.rows) |->
                     [profit |-> trades.rows[i]["profit"],
                      weight |-> trades.rows[i]["weight"]]]
    IN  SelectSeq(terms, LAMBDA x : x.weight.kind # "nan" /\ ~x.profit.nan)

\* validate_and_normalize_data: the four columns clipped in place, one after
\* the other; a missing column raises KeyError where it is read.
ValidateAndNormalizeData(df) ==
    LET d1 == SetColumn(df, "adjusted_discrepancy",
                 [i \in 1..Len(df.rows) |->
                     Clip(df.rows[i]["adjusted_discrepancy"], -500000, 500000)])
        d2 == SetColumn(d1, "volume_a",
                 [i \in 1..Len(df.rows) |-> Clip(d1.rows[i]["volume_a"], 0, 100000)])
        d3 == SetColumn(d2, "TakerFee",
                 [i \in 1..Len(df.rows) |-> Clip(d2.rows[i]["TakerFee"], 10, 50)])
        d4 == SetColumn(d3, "MakerFee",
                 [i \in 1..Len(df.rows) |-> Clip(d3.rows[i]["MakerFee"], 5, 25)])
    IN  IF "volume_a" \notin df.columns THEN [raised |-> TRUE, df |-> d1]
        ELSE IF "TakerFee" \notin df.columns THEN [raised |-> TRUE, df |-> d2]
        ELSE IF "MakerFee" \notin df.columns THEN [raised |-> TRUE, df |-> d3]
        ELSE [raised |-> FALSE, df |-> d4]

\* calculate_profit of the tuner: the column profit added to the caller's table.
CalculateProfit(df) ==
    IF "volume_a" \in df.columns /\ "TakerFee" \in df.columns
    THEN IF "MakerFee" \notin df.columns THEN [raised |-> TRUE, df |-> df]
         ELSE [raised |-> FALSE,
               df |-> SetColumn(df, "profit",
                         [i \in 1..Len(df.rows) |->
                             ProfitAfterFees[df.rows[i]["adjusted_discrepancy"],
                                             df.rows[i]["volume_a"],
                                             df.rows[i]["TakerFee"],
                                             df.rows[i]["MakerFee"]]])]
    ELSE [raised |-> FALSE, df |-> SetColumn(df, "profit", ProxyProfit(df))]

\* The columns, other than the key, that both tables of a merge have: the
\* merged table has each twice, as c_x from the left and c_y from the right.
SharedColumns(df, other, key) == (df.columns \cap other.columns) \ {key}

LeftName(df, other, key, c) ==
    IF c \in SharedColumns(df, other, key) THEN c \o "_x" ELSE c

RightName(df, other, key, c) ==
    IF c \in SharedColumns(df, other, key) THEN c \o "_y" ELSE c

MergedColumns(df, other, key) ==
    {LeftName(df, other, key, c) : c \in df.columns}
        \cup {RightName(df, other, key, c) : c \in other.columns \ {key}}

\* A row of the merged table: the left row, and next to it the right row's
\* columns, NaN when the left row has no partner.
MergedRow(df, other, key, left, right, matched) ==
    [c \in MergedColumns(df, other, key) |->
        IF \E d \in df.columns : LeftName(df, other, key, d) = c
        THEN left[CHOOSE d \in df.columns : LeftName(df, other, key, d) = c]
        ELSE IF matched
             THEN right[CHOOSE d \in other.columns \ {key} :
                           RightName(df, other, key, d) = c]
             ELSE NaNCell]

\* The rows of df.merge(other, on=key, how="left") from the i-th row of df on:
\* a left row once for each row of other with its key, in other's order, and
\* once with NaN when other has none.
RECURSIVE LeftMergeRows(_, _, _, _)
LeftMergeRows(df, other, key, i) ==
    IF i > Len(df.rows) THEN <<>>
    ELSE LET left == df.rows[i]
             partners == SelectSeq(other.rows, LAMBDA r : r[key] = left[key])
         IN  (IF partners = <<>>
              THEN <<MergedRow(df, other, key, left, left, FALSE)>>
              ELSE [j \in 1..Len(partners) |->
                       MergedRow(df, other, key, left, partners[j], TRUE)])
                \o LeftMergeRows(df, other, key, i + 1)

LeftMerge(df, other, key) ==
    [columns |-> MergedColumns(df, other, key),
     rows |-> LeftMergeRows(df, other, key, 1)]

\* df[c].fillna(0, inplace=True): the NaN of column c become 0 in the table
\* where a column selection shares the table's data; with copy-on-write
\* (pandas 3) the selection is a copy and the table keeps its NaN.  setup.py
\* names pandas without a version.
FillNaColumn(df, c, copy_on_write) ==
    IF copy_on_write THEN df
    ELSE SetColumn(df, c,
            [i \in 1..Len(df.rows) |->
                IF df.rows[i][c] = NaNCell THEN 0 ELSE df.rows[i][c]])

\* calculate_profit(df, fees_df) of enhanced_analysis.  With volumes and a
\* fee_a column the table is merged with the fees on pair (KeyError without
\* that column in either table), NaN fees are filled, and the profit is
\* adjusted_discrepancy * volume_a - (fee_a + fee_b) * volume_a (KeyError for a
\* column the merged table lacks); the merged table is a new one, returned, and
\* the caller's table is left alone.  Otherwise the profit is the adjusted
\* discrepancy, written to the caller's table.  df is what the main's df is
\* after df = calculate_profit(df, fees_df), caller the table passed in.
EnhancedCalculateProfit(df, fees_df, copy_on_write) ==
    IF "volume_a" \in df.columns /\ "fee_a" \in fees_df.columns
    THEN IF "pair" \notin df.columns \/ "pair" \notin fees_df.columns
         THEN [raised |-> TRUE, df |-> df, caller |-> df]
         ELSE LET merged == LeftMerge(df, fees_df, "pair")
                  filled == IF "fee_b" \in merged.columns
                            THEN FillNaColumn(FillNaColumn(merged, "fee_a", copy_on_write),
                                              "fee_b", copy_on_write)
                            ELSE merged
              IN  IF ~({"fee_a", "fee_b", "adjusted_discrepancy", "volume_a"}
                          \subseteq merged.columns)
                  THEN [raised |-> TRUE, df |-> df, caller |-> df]
                  ELSE [raised |-> FALSE,
                        df |-> SetColumn(filled, "profit",
                                  [i \in 1..Len(filled.rows) |->
                                      ProfitAfterFees[filled.rows[i]["adjusted_discrepancy"],
                                                      filled.rows[i]["volume_a"],
                                                      filled.rows[i]["fee_a"],
                                                      filled.rows[i]["fee_b"]]]),
                        caller |-> df]
    ELSE IF "adjusted_discrepancy" \notin df.columns
         THEN [raised |-> TRUE, df |-> df, caller |-> df]
         ELSE [raised |-> FALSE,
               df |-> SetColumn(df, "profit", ProxyProfit(df)),
               caller |-> SetColumn(df, "profit", ProxyProfit(df))]

\* The table with the weight column of a threshold value.
WithWeights(script, df, tv, std) ==
    SetColumn(df, "weight",
        [i \in 1..Len(df.rows) |->
            WeightOf[script, df.rows[i]["adjusted_discrepancy"], tv, std]])

\* What backtest_trades_with_weights returns and leaves in the caller's table.
BacktestResult(df, weighted, tv, trades) ==
    IF "profit" \notin df.columns
    THEN [raised |-> TRUE, df |-> weighted, threshold_value |-> tv,
          total_profit |-> <<>>, filtered_trades |-> EmptyFrame]
    ELSE [raised |-> FALSE, df |-> weighted, threshold_value |-> tv,
          total_profit |-> WeightedSum(trades), filtered_trades |-> trades]

\* The rows of the weighted table above the threshold value.
BacktestFiltered(df, weighted, tv) ==
    BacktestResult(df, weighted, tv, FilterAbove(weighted, tv))

\* The call for a threshold value.
BacktestAbove(script, df, tv, std) ==
    BacktestFiltered(df, WithWeights(script, df, tv, std), tv)

\* backtest_trades_with_weights(df, threshold, mean, std_dev): the weight column
\* is written to the caller's table, then the rows above the threshold value are
\* taken and their weighted profit summed (KeyError without a profit column).
BacktestTradesWithWeights(script, df, threshold, mean, std) ==
    BacktestAbove(script, df, ThresholdValue[threshold, mean, std], std)

\* The sign of a weighted sum of at most one term.
Sign(total) ==
    IF total = <<>> \/ total[1].weight.kind = "zero" THEN 0
    ELSE total[1].profit.v.sign

\* total1 < total2 for weighted sums of at most one term each, of the same
\* profit where both are not 0: p * exp(-ratio) grows with the ratio falling
\* for p > 0.
TotalLess(total1, total2) ==
    IF Sign(total1) # Sign(total2) THEN Sign(total1) < Sign(total2)
    ELSE IF Sign(total1) = 0 THEN FALSE
    ELSE LET a1 == total1[1].weight
             a2 == total2[1].weight
             same == CHOOSE ok \in {TRUE} :
                        /\ Len(total1) = 1 /\ Len(total2) = 1
                        /\ total1[1].profit = total2[1].profit
         IN  IF same /\ Sign(total1) = 1
             THEN FloatLess[a2.ratio, a1.ratio]
             ELSE FloatLess[a1.ratio, a2.ratio]

\* The step np.arange fills its array with: its second value less its first,
\* (1 + 0.1) - 1 in floats.
SweepDelta ==
    FloatSub[FloatAdd[FloatOfCount(1), FloatOfDecimal[1000]], FloatOfCount(1)]

\* np.arange(1, 5.1, 0.1): 41 floats, the one at position i (from 0) being
\* 1 + i * delta.
SweepThresholds ==
    [i \in 1..41 |->
        IF i = 1 THEN FloatOfCount(1)
        ELSE IF i = 2 THEN FloatAdd[FloatOfCount(1), FloatOfDecimal[1000]]
        ELSE FloatAdd[FloatOfCount(1), FloatMul[FloatOfCount(i - 1), SweepDelta]]]

\* A row of results_df.
SweepRow(threshold, r) ==
    [threshold |-> threshold, profit |-> r.total_profit,
     num_trades |-> Len(r.filtered_trades.rows)]

\* The loop of optimize_thresholds over the first n thresholds: one row of
\* results appended for each.
RECURSIVE SweepResults(_, _, _, _, _)
SweepResults(df, mean, std, thresholds, n) ==
    IF n = 0 THEN <<>>
    ELSE Append(SweepResults(df, mean, std, thresholds, n - 1),
                SweepRow(thresholds[n],
                         BacktestTradesWithWeights("tuner", df, thresholds[n], mean, std)))

\* The last row with the largest profit.
IdxMaxLast(results_df) ==
    CHOOSE i \in 1..Len(results_df) :
       /\ \A j \in 1..Len(results_df) :
             ~TotalLess(results_df[i].profit, results_df[j].profit)
       /\ \A j \in (i + 1)..Len(results_df) :
             TotalLess(results_df[j].profit, results_df[i].profit)

\* results_df['profit'].idxmax(): the first row with the largest profit.
IdxMax(results_df) ==
    CHOOSE i \in 1..Len(results_df) :
       /\ \A j \in 1..Len(results_df) :
             ~TotalLess(results_df[i].profit, results_df[j].profit)
       /\ \A j \in 1..(i - 1) :
             TotalLess(results_df[j].profit, results_df[i].profit)

\* What optimize_thresholds returns after its loop, and the caller's table.
OptimizeResult(df, results_df) ==
    [raised |-> FALSE, df |-> df,
     optimal |-> results_df[IdxMax(results_df)].threshold, results |-> results_df]

\* The loop over the thresholds: the caller's table has the weights of the
\* last threshold, or of the first one when the table has no profit column
\* (KeyError).
OptimizeOver(df, mean, std, thresholds) ==
    IF "profit" \notin df.columns
    THEN [raised |-> TRUE,
          df |-> WithWeights("tuner", df, ThresholdValue[thresholds[1], mean, std], std),
          optimal |-> FloatZero, results |-> <<>>]
    ELSE OptimizeResult(
             WithWeights("tuner", df,
                         ThresholdValue[thresholds[Len(thresholds)], mean, std], std),
             SweepResults(df, mean, std, thresholds, Len(thresholds)))

\* optimize_thresholds: each threshold of the sweep writes the weight column of
\* the caller's table and gives a row of results; the optimal threshold is that
\* of the first row with the largest profit.
OptimizeThresholds(df, mean, std) == OptimizeOver(df, mean, std, SweepThresholds)

\* The rows of the tables scored here.
ScoreRow(adj, columns) ==
    [c \in columns |->
        CASE c = "adjusted_discrepancy" -> adj
          [] c = "volume_a" -> 2
          [] c = "TakerFee" -> 16
          [] c = "MakerFee" -> 30
          [] c = "profit" -> FloatCell[adj]
          [] c = "pair" -> "XBTUSD"]

\* Adjusted discrepancies that are all equal (0.9948, whose sums of up to 5
\* are floats, and three of 0.7, whose float sum is not 3 * 0.7), three equal
\* ones with one outlier (mean -0.0052 + 0.5, standard deviation 1), and five
\* with mean 2 and standard deviation 2, two of them above the mean.
ScoreSeries ==
    {[i \in 1..n |-> 9948] : n \in 1..MaxScoreRows}
        \cup {<<7000, 7000, 7000>>}
        \cup {[i \in 1..4 |-> IF i = p THEN 19948 ELSE -52] : p \in 1..4}
        \cup {<<0, 50000, 10000, 30000, 10000>>}

\* The tables: as merged with the fee table, without volumes, with a profit
\* column already there, and with volumes and a pair column to merge fees on.
ScoreColumns ==
    {{"adjusted_discrepancy", "volume_a", "TakerFee", "MakerFee"},
     {"adjusted_discrepancy", "TakerFee", "MakerFee"},
     {"adjusted_discrepancy", "profit"},
     {"adjusted_discrepancy", "volume_a", "pair"}}

\* A row of a fee table given to calculate_profit of enhanced_analysis.
EnhancedFeeRow(columns, pair) ==
    [c \in columns |->
        CASE c \in {"pair", "Pair"} -> pair
          [] c \in {"fee_a", "TakerFee%"} -> 16
          [] c \in {"fee_b", "MakerFee%"} -> 30]

\* The fee tables: fees fee_a and fee_b of the table's pair or of another
\* pair, fee_a alone, fees without a pair column, and the columns that
\* kraken_get_trade_fees.py writes to trade_fees.csv.
EnhancedFeeTables ==
    {[columns |-> cols, rows |-> <<EnhancedFeeRow(cols, pair)>>] :
        cols \in {{"pair", "fee_a", "fee_b"}, {"pair", "fee_a"}, {"fee_a", "fee_b"},
                  {"Pair", "TakerFee%", "MakerFee%"}},
        pair \in {"XBTUSD", "ETHUSD"}}

\* A table whose profits are all NaN, as calculate_profit of enhanced_analysis
\* leaves them when no fee was found and fillna did not fill the table.
NaNProfitTable ==
    [columns |-> {"adjusted_discrepancy", "profit"},
     rows |-> [i \in 1..5 |->
                 [c \in {"adjusted_discrepancy", "profit"} |->
                     IF c = "profit" THEN NaN
                     ELSE <<0, 50000, 10000, 30000, 10000>>[i]]]]

ScoreTables ==
    {[columns |-> cols, rows |-> [i \in 1..Len(xs) |-> ScoreRow(xs[i], cols)]] :
        xs \in ScoreSeries, cols \in ScoreColumns}
        \cup {NaNProfitTable}

\* The multipliers backtest_trades_with_weights is called with, in tenths.
ScoreMultipliers == {2, 10, 14, 30}

\* A multiplier in tenths as the float the function is given.
Multiplier(k) == FloatOfDecimal[k * (PriceScale \div 10)]

\* The scoring functions are called in the order of the mains: the function
\* called last is one of those that come before, and it did not raise.
CalledLast(names) ==
    /\ sc_call \in names
    /\ IF sc_call = "" THEN TRUE ELSE ~sc_ret.raised

\* After a call: the caller's table is what the function left of it.
Called(name, k, before, after, ret) ==
    /\ sc_pc \in {"ready", "called"}
    /\ an_pc = "ready"
    /\ sc_pc' = "called"
    /\ sc_call' = name
    /\ sc_k' = k
    /\ sc_in' = before
    /\ sc_df' = after
    /\ sc_ret' = ret
    /\ UNCHANGED <<sc_script, sc_mean, sc_std, fetchVars, anVars, mainVars, storeVars,
                   calVars, tunerVars, cacheVars>>

\* df = validate_and_normalize_data(df)
CallValidate ==
    /\ sc_script = "tuner"
    /\ CalledLast({""})
    /\ LET r == ValidateAndNormalizeData(sc_df)
       IN  Called("validate_and_normalize_data", 0, sc_df, r.df,
                  [raised |-> r.raised])

\* df = calculate_profit(df)
CallCalculateProfit ==
    /\ sc_script = "tuner"
    /\ CalledLast({"", "validate_and_normalize_data"})
    /\ LET r == CalculateProfit(sc_df)
       IN  Called("calculate_profit", 0, sc_df, r.df, [raised |-> r.raised])

\* df = calculate_profit(df, fees_df) of enhanced_analysis (line 141): the
\* main's df is the table returned.
CallEnhancedCalculateProfit ==
    /\ sc_script = "enhanced"
    /\ CalledLast({""})
    /\ \E fees_df \in EnhancedFeeTables, copy_on_write \in BOOLEAN :
          LET r == EnhancedCalculateProfit(sc_df, fees_df, copy_on_write)
          IN  Called("calculate_profit", 0, sc_df, r.df,
                     [raised |-> r.raised, fees_df |-> fees_df, caller |-> r.caller])

\* total_profit, filtered_trades = backtest_trades_with_weights(df, k, mean, std_dev)
CallBacktest ==
    /\ sc_script \in {"tuner", "enhanced"}
    /\ CalledLast({"", "validate_and_normalize_data", "calculate_profit"})
    /\ \E k \in ScoreMultipliers :
          \E r \in {BacktestTradesWithWeights(sc_script, sc_df, Multiplier(k), sc_mean,
                                               sc_std)} :
              Called("backtest_trades_with_weights", k, sc_df, r.df,
                     [raised |-> r.raised, threshold_value |-> r.threshold_value,
                      total_profit |-> r.total_profit,
                      filtered_trades |-> r.filtered_trades])

\* optimal_threshold, results_df = optimize_thresholds(df, mean, std_dev, path)
CallOptimize ==
    /\ sc_script = "tuner"
    /\ CalledLast({"", "validate_and_normalize_data", "calculate_profit"})
    /\ \E r \in {OptimizeThresholds(sc_df, sc_mean, sc_std)} :
           Called("optimize_thresholds", 0, sc_df, r.df,
                  [raised |-> r.raised, optimal |-> r.optimal, results |-> r.results])

\* mean_return / deviation if deviation != 0 else 0: NaN != 0 holds, and a
\* quotient with a NaN in it is NaN.
GuardedRatio(mean_return, deviation) ==
    IF ~deviation.nan /\ deviation.v.sign = 0 THEN Num(FloatZero)
    ELSE IF mean_return.nan \/ deviation.nan THEN NaN
    ELSE Num(FloatDiv[mean_return.v, deviation.v])

\* The Sharpe ratio over the std of the returns and the Sortino ratio over
\* that of the downside returns.
RiskRatios(mean_return, std, downside_std) ==
    [sharpe |-> GuardedRatio(mean_return, std),
     sortino |-> GuardedRatio(mean_return, downside_std)]

\* evaluate_risk_metrics(trade_summary): (0, 0) for an empty table, else the
\* Sharpe ratio over the std of the profits and the Sortino ratio over the std
\* of the negative profits.  mean() and std() skip the profits that are NaN
\* (NaN for a column of nothing else), and NaN < 0 is false.
EvaluateRiskMetrics(trade_summary) ==
    IF trade_summary.rows = <<>>
    THEN [sharpe |-> Num(FloatZero), sortino |-> Num(FloatZero)]
    ELSE RiskRatios(SeriesMean[FloatValues(Column(trade_summary, "profit"))],
                    SeriesStd[FloatValues(Column(trade_summary, "profit"))],
                    SeriesStd[FloatValues(SelectSeq(Column(trade_summary, "profit"),
                                                    LAMBDA x : ~x.nan /\ x.v.sign < 0))])

\* sharpe, sortino = evaluate_risk_metrics(filtered_trades), as the main of
\* enhanced_analysis calls it on what backtest_trades_with_weights returned.
CallEvaluateRiskMetrics ==
    /\ sc_script = "enhanced"
    /\ sc_call = "backtest_trades_with_weights"
    /\ ~sc_ret.raised
    /\ \E r \in {EvaluateRiskMetrics(sc_ret.filtered_trades)} :
           Called("evaluate_risk_metrics", sc_k, sc_df, sc_df,
                  [raised |-> FALSE, trade_summary |-> sc_ret.filtered_trades,
                   sharpe |-> r.sharpe, sortino |-> r.sortino])

\* results = backtest_and_compare(df_a, df_b, None) of the legacy script, in
\* place of the scoring functions.
CallCompareAlone ==
    /\ sc_call = ""
    /\ CallCompare

\* The scoring functions called on a table whose mean and std_dev were computed
\* as the mains do (tuner lines 197-198, enhanced_analysis 137-138), or, in
\* their place, backtest_and_compare called without a threshold on two series
\* of equal closes.
InitScore ==
    /\ sc_pc = "ready"
    /\ sc_script \in {"tuner", "enhanced"}
    /\ sc_df \in ScoreTables
    /\ sc_in = EmptyFrame
    /\ sc_call = ""
    /\ sc_mean = MeanOf(Column(sc_df, "adjusted_discrepancy"))
    /\ sc_std = StdOf(Column(sc_df, "adjusted_discrepancy"))
    /\ sc_k = 0
    /\ sc_ret = <<>>
    /\ an_pc = "ready"
    /\ an_a \in Frames({Flat6}, {"XBTUSD"})
    /\ an_b \in Frames({Flat6}, {"ETHUSD"})
    /\ an_threshold = NoThreshold
    /\ an_df = <<>>
    /\ an_out = <<>>
    /\ an_rev = <<>>
    /\ FetchOff
    /\ MainOff
    /\ StoreOff
    /\ CalibratorOff
    /\ TunerOff
    /\ CacheOff

NextScore ==
    \/ CallValidate
    \/ CallCalculateProfit
    \/ CallEnhancedCalculateProfit
    \/ CallBacktest
    \/ CallOptimize
    \/ CallEvaluateRiskMetrics
    \/ CallCompareAlone

SpecScore == InitScore /\ [][NextScore]_vars

(***************************************************************************)
(* Part 6: the thresholds of analyze_data.py (get_top_opportunities) and   *)
(* Strategy/strategy_builder.py (formulate_strategy).  A DataFrame is its  *)
(* set of columns and its list of rows, each with a time and an adjusted   *)
(* discrepancy in units of 0.0001; a percentile is a whole number, a       *)
(* standard deviation multiplier is in tenths and not negative.            *)
(***************************************************************************)

\* Most rows of a table.
MaxTable == 5

\* The adjusted discrepancies of a table.
AdjustedColumn(df) == [i \in 1..Len(df) |-> df[i].adjusted_discrepancy]

\* xs[i] > mean(xs) + (k / 10) * std(xs) with the standard deviation of divisor
\* n: as AboveMeanPlusTenthsStd, e[i]^2 * 100 * n > k^2 * sum(e^2).
AboveMeanPlusTenthsPopulationStd(xs, i, k) ==
    LET n == Len(xs)
        es == Deviations(xs)
        g == GcdSeq(es, n)
    IN  /\ n >= 1
        /\ es[i] > 0
        /\ 100 * (es[i] \div g) * (es[i] \div g) * n > k * k * SumSquares(es, g, n)

\* xs[i] > mean(xs) + (k / 10) * std(xs) for k >= 0, std() the sample standard
\* deviation (divisor n - 1; NaN, and the comparison false, for n < 2).  With
\* e = n * x - sum, reduced by the gcd: e[i] > 0 and
\* e[i]^2 * 100 * (n - 1) > k^2 * sum(e^2).
AboveMeanPlusTenthsStd(xs, i, k) ==
    LET n == Len(xs)
        es == Deviations(xs)
        g == GcdSeq(es, n)
    IN  /\ n >= 2
        /\ es[i] > 0
        /\ 100 * (es[i] \div g) * (es[i] \div g) * (n - 1) > k * k * SumSquares(es, g, n)

RECURSIVE Insert(_, _)
\* x put into an ascending list.
Insert(x, sorted) ==
    IF sorted = <<>> THEN <<x>>
    ELSE IF x <= Head(sorted) THEN <<x>> \o sorted
    ELSE <<Head(sorted)>> \o Insert(x, Tail(sorted))

RECURSIVE Sorted(_, _)
\* The first n values of a list in ascending order.
Sorted(xs, n) == IF n = 0 THEN <<>> ELSE Insert(xs[n], Sorted(xs, n - 1))

\* As AboveQuantile, with the percentile counted from the top.
AboveQuantileFromTop(xs, i, p) ==
    LET n == Len(xs)
        sorted == Sorted(xs, n)
        lo == ((n - 1) * (100 - p)) \div 100
        hi == IF lo + 1 < n THEN lo + 1 ELSE lo
    IN  /\ n >= 1
        /\ 100 * xs[i] > 100 * sorted[lo + 1]
               + ((n - 1) * (100 - p) - 100 * lo) * (sorted[hi + 1] - sorted[lo + 1])

\* xs[i] > xs.quantile(p / 100), the quantile interpolated linearly between the
\* sorted values at positions floor(h) and floor(h) + 1 for h = (n - 1) * p / 100
\* (positions from 0); NaN, and the comparison false, for an empty list.
AboveQuantile(xs, i, p) ==
    LET n == Len(xs)
        sorted == Sorted(xs, n)
        lo == ((n - 1) * p) \div 100
        hi == IF lo + 1 < n THEN lo + 1 ELSE lo
    IN  /\ n >= 1
        /\ 100 * xs[i] > 100 * sorted[lo + 1]
               + ((n - 1) * p - 100 * lo) * (sorted[hi + 1] - sorted[lo + 1])

\* df['adjusted_discrepancy'] > threshold for row i, by method.
AboveThreshold(df, i, method, value) ==
    CASE method = "percentile" -> AboveQuantile(AdjustedColumn(df), i, value)
      [] method = "std_dev" -> AboveMeanPlusTenthsStd(AdjustedColumn(df), i, value)
      [] method = "fixed" -> df[i].adjusted_discrepancy > value

\* The rows of the table above the threshold, in the table's order.
FilteredRows(df, method, value) ==
    LET keep == {i \in 1..Len(df) : AboveThreshold(df, i, method, value)}
        pick[i \in 0..Len(df)] ==
            IF i = 0 THEN <<>>
            ELSE IF i \in keep THEN Append(pick[i - 1], df[i]) ELSE pick[i - 1]
    IN  pick[Len(df)]

\* The position of the first largest adjusted discrepancy of a list of rows.
FirstLargest(rows) ==
    CHOOSE i \in 1..Len(rows) :
       /\ \A j \in 1..Len(rows) :
             rows[j].adjusted_discrepancy <= rows[i].adjusted_discrepancy
       /\ \A j \in 1..(i - 1) :
             rows[j].adjusted_discrepancy < rows[i].adjusted_discrepancy

\* A list without its i-th entry.
Without(rows, i) == SubSeq(rows, 1, i - 1) \o SubSeq(rows, i + 1, Len(rows))

RECURSIVE NLargest(_, _)
\* filtered_df.nlargest(n, 'adjusted_discrepancy'): the n rows of the largest
\* values, largest first, rows of one value in the table's order.
NLargest(rows, n) ==
    IF n <= 0 \/ rows = <<>> THEN <<>>
    ELSE <<rows[FirstLargest(rows)]>>
            \o NLargest(Without(rows, FirstLargest(rows)), n - 1)

Methods == {"percentile", "std_dev", "fixed"}

\* The dtype of a numeric column of the table read_sql builds
\* (load_existing_data, line 36): float64 from rows of numbers, object for a
\* result without rows.
ReadSqlDtype(rows) == IF rows = <<>> THEN "object" ELSE "float64"

\* get_top_opportunities(df, n, method, value): ValueError for another method,
\* KeyError where df['adjusted_discrepancy'] is read (lines 90, 93, 104) for a
\* DataFrame without that column, as the pd.DataFrame() load_existing_data
\* returns when the table cannot be read, and TypeError from nlargest (line
\* 106) for a column of dtype object, whose check comes before any row is
\* looked at: the threshold of such a table without rows is NaN and the filter
\* of line 104 has selected no row by then.
GetTopOpportunities(df, n, method, value) ==
    IF method \notin Methods \/ "adjusted_discrepancy" \notin df.columns
    THEN [called |-> TRUE, raised |-> TRUE, rows |-> <<>>]
    ELSE IF df.dtype = "object"
    THEN [called |-> TRUE, raised |-> TRUE, rows |-> <<>>]
    ELSE [called |-> TRUE, raised |-> FALSE,
          rows |-> NLargest(FilteredRows(df.rows, method, value), n)]

\* formulate_strategy(df, threshold_factor): the rows above mean +
\* threshold_factor * std, in the table's order; KeyError for a DataFrame
\* without the column adjusted_discrepancy.  It calls no nlargest: a table
\* without rows gives a NaN threshold and no row, whatever the dtype.
FormulateStrategy(df, threshold_factor) ==
    IF "adjusted_discrepancy" \notin df.columns
    THEN [called |-> TRUE, raised |-> TRUE, rows |-> <<>>]
    ELSE [called |-> TRUE, raised |-> FALSE,
          rows |-> FilteredRows(df.rows, "std_dev", threshold_factor)]

\* threshold_factor=2, in tenths.
DefaultThresholdFactor == 20

NotCalled == [called |-> FALSE, raised |-> FALSE, rows |-> <<>>]

\* The adjusted discrepancies of the tables: 0, 1 and 3.
Levels == {0, 10000, 30000}

\* The rows of the tables: candles 15 seconds apart.
TableRows ==
    UNION {{[i \in 1..n |-> [time |-> 15 * (i - 1), adjusted_discrepancy |-> xs[i]]] :
               xs \in [1..n -> Levels]} : n \in 0..MaxTable}

\* The tables: a table of the store with its two columns and any number of
\* rows, as read_sql builds it (dtype is that of adjusted_discrepancy), a
\* table without rows that a caller built with a float64 column, and the
\* DataFrame without columns of a store that cannot be read.
Tables ==
    {[columns |-> {"time", "adjusted_discrepancy"}, rows |-> rows,
      dtype |-> ReadSqlDtype(rows)] : rows \in TableRows}
        \cup {[columns |-> {"time", "adjusted_discrepancy"}, rows |-> <<>>,
                dtype |-> "float64"]}
        \cup {EmptyFrame}

\* The arguments of get_top_opportunities: the call of main (n=10, percentile,
\* 95), the median, multipliers 1.0, 1.9 and 2.0, a fixed level and a method
\* the function does not know.
MethodValues ==
    {<<"percentile", 95>>, <<"percentile", 50>>, <<"std_dev", 10>>, <<"std_dev", 19>>,
     <<"std_dev", 20>>, <<"fixed", 10000>>, <<"mean", 0>>}

\* top_opportunities = get_top_opportunities(combined_data, n, method, value)
CallGetTopOpportunities ==
    /\ cal_pc \in {"ready", "called"}
    /\ ~cal_top.called
    /\ \E n \in {1, 10}, mv \in MethodValues :
          /\ cal_n' = n
          /\ cal_method' = mv[1]
          /\ cal_value' = mv[2]
          /\ cal_top' = GetTopOpportunities(cal_df, n, mv[1], mv[2])
    /\ cal_pc' = "called"
    /\ UNCHANGED <<cal_df, cal_strategy, fetchVars, anVars, mainVars, storeVars,
                   scoreVars, tunerVars, cacheVars>>

\* trades = formulate_strategy(df)
CallFormulateStrategy ==
    /\ cal_pc \in {"ready", "called"}
    /\ ~cal_strategy.called
    /\ cal_strategy' = FormulateStrategy(cal_df, DefaultThresholdFactor)
    /\ cal_pc' = "called"
    /\ UNCHANGED <<cal_df, cal_method, cal_value, cal_n, cal_top, fetchVars, anVars,
                   mainVars, storeVars, scoreVars, tunerVars, cacheVars>>

InitCalibrate ==
    /\ cal_pc = "ready"
    /\ cal_df \in Tables
    /\ cal_method = ""
    /\ cal_value = 0
    /\ cal_n = 0
    /\ cal_top = NotCalled
    /\ cal_strategy = NotCalled
    /\ FetchOff
    /\ AnalyzerOff
    /\ MainOff
    /\ StoreOff
    /\ ScorerOff
    /\ TunerOff
    /\ CacheOff

NextCalibrate == CallGetTopOpportunities \/ CallFormulateStrategy

SpecCalibrate == InitCalibrate /\ [][NextCalibrate]_vars

(***************************************************************************)
(* Part 7: main() of arb_backtest_tuner.py: the store is read, then the    *)
(* fee file; merging, validating and scoring follow only when both gave    *)
(* rows.                                                                   *)
(***************************************************************************)

\* DataFrame.empty: no rows or no columns.
IsEmpty(df) == Len(df.rows) = 0 \/ df.columns = {}

\* A row of the store as the tuner reads it.
TunerRow(adj, columns) ==
    [c \in columns |->
        CASE c = "adjusted_discrepancy" -> adj
          [] c = "pair_a" -> "XBTUSD"
          [] c = "pair_b" -> "ETHUSD"
          [] c = "volume_a" -> 2]

\* What load_existing_data gives main: the rows of the table with or without
\* a volume, with both pair columns, with pair_b only or with neither, or an
\* empty DataFrame (no table, or the read raised).
TunerTables ==
    {[columns |-> cols, rows |-> [i \in 1..Len(xs) |-> TunerRow(xs[i], cols)]] :
        xs \in ScoreSeries,
        cols \in {{"adjusted_discrepancy", "pair_a", "pair_b", "volume_a"},
                  {"adjusted_discrepancy", "pair_a", "pair_b"},
                  {"adjusted_discrepancy", "pair_b", "volume_a"},
                  {"adjusted_discrepancy", "volume_a"}}}
      \cup {EmptyFrame}

\* A cell of trade_fees.csv as read_csv types it: a number, in hundredths of a
\* percent, or a text.
NumberCell(v) == [number |-> TRUE, v |-> v]

TextCell == [number |-> FALSE, v |-> 0]

BlankCell == NumberCell(NaNCell)

\* A line of trade_fees.csv.
FeeLine(pair, taker, maker) ==
    [c \in {"Pair", "TakerFee%", "MakerFee%"} |->
        CASE c = "Pair" -> pair [] c = "TakerFee%" -> taker [] c = "MakerFee%" -> maker]

FeeLines ==
    <<FeeLine("XBTUSD", NumberCell(16), NumberCell(30)),
      FeeLine("ETHUSD", NumberCell(26), NumberCell(16))>>

WithoutColumn(line, c) == [d \in DOMAIN line \ {c} |-> line[d]]

\* trade_fees.csv: not there, without a column, with a fee that is no number,
\* with a header only, with the fees left blank, with another pair only, and
\* as kraken_get_trade_fees.py writes it.
FeeFiles ==
    {[exists |-> FALSE, columns |-> {}, rows |-> <<>>],
     [exists |-> TRUE, columns |-> {"Pair", "TakerFee%"},
      rows |-> [i \in 1..2 |-> WithoutColumn(FeeLines[i], "MakerFee%")]],
     [exists |-> TRUE, columns |-> {"Pair", "TakerFee%", "MakerFee%"},
      rows |-> <<FeeLine("XBTUSD", TextCell, NumberCell(30))>>],
     [exists |-> TRUE, columns |-> {"Pair", "TakerFee%", "MakerFee%"}, rows |-> <<>>],
     [exists |-> TRUE, columns |-> {"Pair", "TakerFee%", "MakerFee%"},
      rows |-> <<FeeLine("XBTUSD", BlankCell, BlankCell)>>],
     [exists |-> TRUE, columns |-> {"Pair", "TakerFee%", "MakerFee%"},
      rows |-> <<FeeLines[2]>>],
     [exists |-> TRUE, columns |-> {"Pair", "TakerFee%", "MakerFee%"}, rows |-> FeeLines]}

\* Whether the try block of load_trade_fees raises: read_csv without a file, a
\* column that is not there, or a text divided by 100.
LoadTradeFeesRaises(file) ==
    \/ ~file.exists
    \/ ~({"Pair", "TakerFee%", "MakerFee%"} \subseteq file.columns)
    \/ \E i \in 1..Len(file.rows) :
          ~file.rows[i]["TakerFee%"].number \/ ~file.rows[i]["MakerFee%"].number

\* load_trade_fees: read_csv, the two percentages divided by 100 (a percentage
\* in hundredths of a percent is the fraction in units of 0.0001) and the three
\* columns selected; an empty DataFrame after any exception.
LoadTradeFees(file) ==
    IF ~LoadTradeFeesRaises(file)
    THEN [columns |-> {"Pair", "TakerFee", "MakerFee"},
          rows |-> [i \in 1..Len(file.rows) |->
                      [c \in {"Pair", "TakerFee", "MakerFee"} |->
                          CASE c = "Pair" -> file.rows[i]["Pair"]
                            [] c = "TakerFee" -> file.rows[i]["TakerFee%"].v
                            [] c = "MakerFee" -> file.rows[i]["MakerFee%"].v]]]
    ELSE EmptyFrame

\* The row of fees_df for a pair (the tables here list a pair once), NaN fees
\* for a pair that is not listed.
FeeRowOf(fees_df, pair) ==
    IF \E i \in 1..Len(fees_df.rows) : fees_df.rows[i]["Pair"] = pair
    THEN fees_df.rows[CHOOSE i \in 1..Len(fees_df.rows) : fees_df.rows[i]["Pair"] = pair]
    ELSE [c \in {"Pair", "TakerFee", "MakerFee"} |-> NaNCell]

\* merge_column = 'pair_a' if 'pair_a' in df.columns else 'pair_b'
MergeColumn(df) == IF "pair_a" \in df.columns THEN "pair_a" ELSE "pair_b"

\* Whether the try block of merge_trade_fees raises: the merge column is not in
\* df (KeyError).
MergeTradeFeesRaises(df) == MergeColumn(df) \notin df.columns

\* merge_trade_fees: a left merge of the fee table, its column Pair renamed to
\* pair, on pair_a (on pair_b when df has no pair_a); a row whose pair is not
\* listed gets NaN in pair, TakerFee and MakerFee.  After an exception the
\* frame is returned as it came.
MergeTradeFees(df, fees_df) ==
    IF MergeTradeFeesRaises(df) THEN df
    ELSE [columns |-> df.columns \cup {"pair", "TakerFee", "MakerFee"},
          rows |-> [i \in 1..Len(df.rows) |->
                      [c \in df.columns \cup {"pair", "TakerFee", "MakerFee"} |->
                          IF c \in df.columns THEN df.rows[i][c]
                          ELSE FeeRowOf(fees_df, df.rows[i][MergeColumn(df)])
                                  [IF c = "pair" THEN "Pair" ELSE c]]]]

\* df = load_existing_data(DB_FILE); if df.empty: ... return
TunerLoadData ==
    /\ tu_pc = "start"
    /\ tu_df' = tu_db
    /\ IF IsEmpty(tu_db)
       THEN /\ tu_pc' = "no_data"
            /\ tu_log' = Append(tu_log, "No data available for analysis. Exiting.")
       ELSE /\ tu_pc' = "data"
            /\ tu_log' = tu_log
    /\ UNCHANGED <<tu_db, tu_fee_file, tu_fees, tu_stats, tu_steps, tu_ret, fetchVars,
                   anVars, mainVars, storeVars, scoreVars, calVars, cacheVars>>

\* fees_df = load_trade_fees(TRADE_FEES_FILE); if fees_df.empty: ... return
TunerLoadFees ==
    /\ tu_pc = "data"
    /\ LET fees_df == LoadTradeFees(tu_fee_file)
           raised == IF LoadTradeFeesRaises(tu_fee_file)
                     THEN Append(tu_log, "Error loading trade fees")
                     ELSE tu_log
       IN  /\ tu_fees' = fees_df
           /\ IF IsEmpty(fees_df)
              THEN /\ tu_pc' = "no_fees"
                   /\ tu_log' = Append(raised, "Trade fee data unavailable. Exiting.")
              ELSE /\ tu_pc' = "fees"
                   /\ tu_log' = raised
    /\ UNCHANGED <<tu_db, tu_fee_file, tu_df, tu_stats, tu_steps, tu_ret, fetchVars,
                   anVars, mainVars, storeVars, scoreVars, calVars, cacheVars>>

\* A step of main after the two loads: the function called, main's df after
\* it, and what it returned; an exception ends main.
TunerStep(from, to, name, r, stats) ==
    /\ tu_pc = from
    /\ tu_pc' = IF r.raised THEN "crashed" ELSE to
    /\ tu_df' = r.df
    /\ tu_ret' = r
    /\ tu_stats' = stats
    /\ tu_steps' = Append(tu_steps, name)
    /\ UNCHANGED <<tu_db, tu_fee_file, tu_fees, tu_log, fetchVars, anVars, mainVars,
                   storeVars, scoreVars, calVars, cacheVars>>

\* df = merge_trade_fees(df, fees_df): the function catches its own exception
\* and logs it.
TunerMerge ==
    /\ tu_pc = "fees"
    /\ tu_pc' = "merged"
    /\ tu_df' = MergeTradeFees(tu_df, tu_fees)
    /\ tu_ret' = [raised |-> FALSE, df |-> MergeTradeFees(tu_df, tu_fees)]
    /\ tu_steps' = Append(tu_steps, "merge_trade_fees")
    /\ tu_log' = IF MergeTradeFeesRaises(tu_df)
                 THEN Append(tu_log, "Error merging trade fees") ELSE tu_log
    /\ UNCHANGED <<tu_db, tu_fee_file, tu_fees, tu_stats, fetchVars, anVars, mainVars,
                   storeVars, scoreVars, calVars, cacheVars>>

\* df = validate_and_normalize_data(df), then mean and std_dev of the column
TunerValidate ==
    /\ tu_pc = "merged"
    /\ LET r == ValidateAndNormalizeData(tu_df)
       IN  TunerStep("merged", "validated", "validate_and_normalize_data", r,
                     IF r.raised THEN tu_stats
                     ELSE [mean |-> MeanOf(Column(r.df, "adjusted_discrepancy")),
                           std_dev |-> StdOf(Column(r.df, "adjusted_discrepancy"))])

\* df = calculate_profit(df)
TunerCalculateProfit ==
    /\ tu_pc = "validated"
    /\ TunerStep("validated", "profit", "calculate_profit", CalculateProfit(tu_df),
                 tu_stats)

\* optimal_threshold, results_df = optimize_thresholds(df, mean, std_dev, path)
TunerOptimize ==
    /\ tu_pc = "profit"
    /\ TunerStep("profit", "optimized", "optimize_thresholds",
                 OptimizeThresholds(tu_df, tu_stats.mean, tu_stats.std_dev), tu_stats)

\* total_profit, filtered_trades = backtest_trades_with_weights(df,
\*     optimal_threshold, mean, std_dev)
TunerBacktest ==
    /\ tu_pc = "optimized"
    /\ TunerStep("optimized", "done", "backtest_trades_with_weights",
                 BacktestTradesWithWeights("tuner", tu_df, tu_ret.optimal,
                                           tu_stats.mean, tu_stats.std_dev),
                 tu_stats)

\* A run of main over a store and a fee file.
InitTuner ==
    /\ tu_pc = "start"
    /\ tu_db \in TunerTables
    /\ tu_fee_file \in FeeFiles
    /\ tu_df = EmptyFrame
    /\ tu_fees = EmptyFrame
    /\ tu_stats = <<>>
    /\ tu_log = <<>>
    /\ tu_steps = <<>>
    /\ tu_ret = <<>>
    /\ FetchOff
    /\ AnalyzerOff
    /\ MainOff
    /\ StoreOff
    /\ ScorerOff
    /\ CalibratorOff
    /\ CacheOff

NextTuner ==
    \/ TunerLoadData
    \/ TunerLoadFees
    \/ TunerMerge
    \/ TunerValidate
    \/ TunerCalculateProfit
    \/ TunerOptimize
    \/ TunerBacktest

SpecTuner == InitTuner /\ [][NextTuner]_vars

(***************************************************************************)
(* Part 8: the file cache of kraken_backtest (utils/cache.py) and the loop *)
(* of main.py that reads it before it fetches.                             *)
(***************************************************************************)

\* Latest time of the clock, in minutes.
MaxClock == 20

\* Most calls of load_cached_data and save_to_cache made from outside main.
MaxCacheCalls == 1

\* timedelta(minutes=15)
CacheTtlMinutes == 15

\* The minutes that pass between two steps.
ClockSteps == {5, 10}

CachePairs == {"XBTUSD", "ETHUSD"}

CacheIntervals == {1, 15}

\* f"{CACHE_DIR}{pair}_{interval}.json"
CachePath(pair, interval) ==
    "results/cache/" \o pair \o "_" \o ToString(interval) \o ".json"

\* datetime.isoformat() and datetime.fromisoformat(): the text of a time, read
\* back.
IsoFormat(t) == [iso_text |-> t]

FromIsoFormat(x) == x.iso_text

\* What a call hands back: None, or data.
NoData == [none |-> TRUE, data |-> <<>>]

SomeData(d) == [none |-> FALSE, data |-> d]

\* The answers of the OHLC endpoint for a pair: candles, by the time they
\* were asked for.
Candles(pair, t) == <<[pair |-> pair, time |-> t, close |-> "100.0"]>>

\* What is handed to save_to_cache from outside main.
CachePayloads(pair) == {<<>>, <<[pair |-> pair, time |-> 0, close |-> "101.0"]>>}

\* The file is fresh when it is 15 minutes old, too.
IsFreshInclusive(last_fetched, now) == now - last_fetched <= CacheTtlMinutes

\* datetime.now() - last_fetched < timedelta(minutes=15)
IsFresh(last_fetched, now) == now - last_fetched < CacheTtlMinutes

\* load_cached_data(pair, interval)
LoadCachedData(files, pair, interval, now) ==
    LET path == CachePath(pair, interval)
    IN  IF path \in DOMAIN files /\ IsFresh(FromIsoFormat(files[path].last_fetched), now)
        THEN SomeData(files[path].data)
        ELSE NoData

\* save_to_cache(pair, interval, data): the files after the call.
SaveToCache(files, pair, interval, data, now) ==
    LET path == CachePath(pair, interval)
        cache == [last_fetched |-> IsoFormat(now), data |-> data]
    IN  [p \in DOMAIN files \cup {path} |-> IF p = path THEN cache ELSE files[p]]

\* The record of the last save made for each (pair, interval).
Remember(saved, pair, interval, data, now) ==
    [k \in DOMAIN saved \cup {<<pair, interval>>} |->
        IF k = <<pair, interval>> THEN [at |-> now, data |-> data] ELSE saved[k]]

\* "if cached_data:" of main: neither None nor an empty list.
IsUsable(ret) == ~ret.none /\ ret.data # <<>>

\* Time passes.
Tick ==
    /\ km_pc \in {"loop", "fetching", "done", "crashed"}
    /\ \E d \in ClockSteps :
          /\ clock + d <= MaxClock
          /\ clock' = clock + d
    /\ UNCHANGED <<cache_files, last_saved, ca_call, ca_calls, km_pc, km_interval,
                   km_pairs, km_i, km_data, km_iters, fetchVars, anVars, mainVars,
                   storeVars, scoreVars, calVars, tunerVars>>

\* load_cached_data(pair, interval), called from outside main
CallLoadCachedData ==
    /\ km_pc \in {"loop", "fetching", "done", "crashed"}
    /\ ca_calls < MaxCacheCalls
    /\ \E pair \in CachePairs, interval \in CacheIntervals :
          ca_call' = [name |-> "load_cached_data", by |-> "outside", pair |-> pair,
                      interval |-> interval, at |-> clock, data |-> <<>>,
                      ret |-> LoadCachedData(cache_files, pair, interval, clock)]
    /\ ca_calls' = ca_calls + 1
    /\ UNCHANGED <<clock, cache_files, last_saved, km_pc, km_interval, km_pairs, km_i,
                   km_data, km_iters, fetchVars, anVars, mainVars, storeVars, scoreVars,
                   calVars, tunerVars>>

\* save_to_cache(pair, interval, data), called from outside main
CallSaveToCache ==
    /\ km_pc \in {"loop", "fetching", "done", "crashed"}
    /\ ca_calls < MaxCacheCalls
    /\ \E pair \in CachePairs, interval \in CacheIntervals :
          \E data \in CachePayloads(pair) :
             /\ cache_files' = SaveToCache(cache_files, pair, interval, data, clock)
             /\ last_saved' = Remember(last_saved, pair, interval, data, clock)
             /\ ca_call' = [name |-> "save_to_cache", by |-> "outside", pair |-> pair,
                            interval |-> interval, at |-> clock, data |-> data,
                            ret |-> NoData]
    /\ ca_calls' = ca_calls + 1
    /\ UNCHANGED <<clock, km_pc, km_interval, km_pairs, km_i, km_data, km_iters,
                   fetchVars, anVars, mainVars, storeVars, scoreVars, calVars,
                   tunerVars>>

\* data with data[pair] = value
SetItem(dict, pair, value) ==
    [k \in DOMAIN dict \cup {pair} |-> IF k = pair THEN value ELSE dict[k]]

\* An iteration of the loop of main up to the await: load_cached_data, and
\* data[pair] = cached_data or the call of fetch_ohlc_data.
MainLoadOrFetch ==
    /\ km_pc = "loop"
    /\ km_i < Len(km_pairs)
    /\ LET pair == km_pairs[km_i + 1]
           cached_data == LoadCachedData(cache_files, pair, km_interval, clock)
       IN  /\ ca_call' = [name |-> "load_cached_data", by |-> "main", pair |-> pair,
                          interval |-> km_interval, at |-> clock, data |-> <<>>,
                          ret |-> cached_data]
           /\ IF IsUsable(cached_data)
              THEN /\ km_data' = SetItem(km_data, pair, cached_data.data)
                   /\ km_i' = km_i + 1
                   /\ km_pc' = "loop"
                   /\ km_iters' = Append(km_iters,
                                     [pair |-> pair, cached_data |-> cached_data,
                                      fetched |-> FALSE, saved |-> FALSE])
              ELSE /\ km_pc' = "fetching"
                   /\ km_iters' = Append(km_iters,
                                     [pair |-> pair, cached_data |-> cached_data,
                                      fetched |-> TRUE, saved |-> FALSE])
                   /\ UNCHANGED <<km_data, km_i>>
    /\ UNCHANGED <<clock, cache_files, last_saved, ca_calls, km_interval, km_pairs,
                   fetchVars, anVars, mainVars, storeVars, scoreVars, calVars,
                   tunerVars>>

\* What fetch_ohlc_data does: the candles of a 200 answer, [] for another
\* status, or an exception (no connection, no "result" in the answer).
FetchResults(pair, now) ==
    {[raised |-> FALSE, data |-> Candles(pair, now)],
     [raised |-> FALSE, data |-> <<>>],
     [raised |-> TRUE, data |-> <<>>]}

\* The rest of the iteration: fetch_ohlc_data returns, save_to_cache, and
\* data[pair] = ohlc_data; an exception of the fetch ends main.
MainFetched ==
    /\ km_pc = "fetching"
    /\ LET pair == km_pairs[km_i + 1]
       IN  \E r \in FetchResults(pair, clock) :
              IF r.raised
              THEN /\ km_pc' = "crashed"
                   /\ UNCHANGED <<cache_files, last_saved, ca_call, km_data, km_i,
                                  km_iters>>
              ELSE /\ cache_files' =
                        SaveToCache(cache_files, pair, km_interval, r.data, clock)
                   /\ last_saved' = Remember(last_saved, pair, km_interval, r.data, clock)
                   /\ ca_call' = [name |-> "save_to_cache", by |-> "main", pair |-> pair,
                                  interval |-> km_interval, at |-> clock,
                                  data |-> r.data, ret |-> NoData]
                   /\ km_data' = SetItem(km_data, pair, r.data)
                   /\ km_i' = km_i + 1
                   /\ km_pc' = "loop"
                   /\ km_iters' = [km_iters EXCEPT ![Len(km_iters)].saved = TRUE]
    /\ UNCHANGED <<clock, ca_calls, km_interval, km_pairs, fetchVars, anVars, mainVars,
                   storeVars, scoreVars, calVars, tunerVars>>

\* The loop is over: perform_backtest(data) follows.
MainLoopDone ==
    /\ km_pc = "loop"
    /\ km_i = Len(km_pairs)
    /\ km_pc' = "done"
    /\ UNCHANGED <<clock, cache_files, last_saved, ca_call, ca_calls, km_interval,
                   km_pairs, km_i, km_data, km_iters, fetchVars, anVars, mainVars,
                   storeVars, scoreVars, calVars, tunerVars>>

\* What an earlier run has left in results/cache/: nothing, or the candles of
\* XBTUSD at interval 15 saved at time 0.
InitialSaves == {<<>>, Remember(<<>>, "XBTUSD", 15, Candles("XBTUSD", 0), 0)}

\* A run of main over two pairs (a pair may be listed twice), with
\* calls of the two cache functions from outside.
InitCache ==
    /\ clock = 0
    /\ last_saved \in InitialSaves
    /\ cache_files =
          IF last_saved = <<>> THEN <<>>
          ELSE SaveToCache(<<>>, "XBTUSD", 15, Candles("XBTUSD", 0), 0)
    /\ ca_call = <<>>
    /\ ca_calls = 0
    /\ km_pc = "loop"
    /\ km_interval \in CacheIntervals
    /\ km_pairs \in {<<"XBTUSD", "ETHUSD">>, <<"XBTUSD", "XBTUSD">>}
    /\ km_i = 0
    /\ km_data = <<>>
    /\ km_iters = <<>>
    /\ FetchOff
    /\ AnalyzerOff
    /\ MainOff
    /\ StoreOff
    /\ ScorerOff
    /\ CalibratorOff
    /\ TunerOff

NextCache ==
    \/ Tick
    \/ CallLoadCachedData
    \/ CallSaveToCache
    \/ MainLoadOrFetch
    \/ MainFetched
    \/ MainLoopDone

SpecCache == InitCache /\ [][NextCache]_vars

\* ------------------------------------------------------- fetcher: claims
Positions == 1..Len(all_pairs)

Distinct(s) == \A i, j \in 1..Len(s) : s[i] = s[j] => i = j

\* The pairs whose request was answered with a usable "result".
SucceededPairs == {all_pairs[p] : p \in {q \in Positions : outcome[q].kind = "ok"}}

\* The mapping as a function of the per-pair outcomes alone (the later position
\* wins for a pair listed twice).
ExpectedMapping ==
    [k \in SucceededPairs |->
        LET ps == {p \in Positions : all_pairs[p] = k /\ outcome[p].kind = "ok"}
        IN  outcome[CHOOSE p \in ps : \A q \in ps : q <= p].data]

RECURSIVE Flatten(_, _)
Flatten(bs, n) == IF n = 0 THEN <<>> ELSE Flatten(bs, n - 1) \o bs[n]

\* C1: whatever each pair's request does (answer, exception, malformed body,
\* no "result"), no task and no gather raises, the fetcher is never stuck before
\* it returns, and the keys of the returned mapping are exactly the pairs whose
\* request succeeded.
C1_FetchKeysAreSucceeded ==
    /\ fpc # "raised"
    /\ \A b \in 1..NumBatches : bstate[b] # "raised"
    /\ fpc # "returned" => ENABLED NextFetch
    /\ fpc = "returned" => DOMAIN ohlc_data = SucceededPairs

\* C1 witness: a returned run with a success, an exception and a missing "result".
C1_Witness ==
    /\ fpc = "returned"
    /\ \E p, q, r \in Positions :
          /\ outcome[p].kind = "ok"
          /\ Raises(outcome[q].kind)
          /\ outcome[r].kind = "noresult"
          /\ DOMAIN ohlc_data = {all_pairs[p]}

\* C2: every position of the list is requested at most once at any time and
\* exactly once when its task, and the fetcher, has returned: no retry, and no
\* pair skipped because another one failed.
C2_EachPairRequestedOnce ==
    /\ \A p \in Positions : requests[p] <= 1
    /\ \A b \in 1..NumBatches :
          bstate[b] = "returned" =>
             \A k \in 1..Len(batches[b]) : requests[PosOf(b, k)] = 1
    /\ fpc = "returned" => \A p \in Positions : requests[p] = 1

\* C2 witness: the first pair of a batch failed, the next pair of that batch and
\* the pair of another batch were requested all the same.
C2_Witness ==
    /\ fpc = "returned"
    /\ NumBatches >= 2
    /\ \E p, q, r \in Positions :
          /\ outcome[p].kind # "ok"
          /\ BatchOf(q) = BatchOf(p) /\ q > p /\ requests[q] = 1
          /\ BatchOf(r) # BatchOf(p) /\ requests[r] = 1
          /\ requests[p] = 1

\* C3: the batches are the consecutive slices of size batch_size (the last one
\* possibly shorter); a request of a batch is in flight only when every earlier
\* request of that batch has ended; so each batch has at most one request in
\* flight and the fetcher at most ceil(N / batch_size).
C3_SequentialInBatchConcurrentAcross ==
    /\ fpc # "idle" =>
          /\ NumBatches = (Len(all_pairs) + batch_size - 1) \div batch_size
          /\ Flatten(batches, NumBatches) = all_pairs
          /\ \A b \in 1..NumBatches :
                /\ b < NumBatches => Len(batches[b]) = batch_size
                /\ Len(batches[b]) \in 1..batch_size
    /\ \A p \in inflight :
          \A q \in Positions : (BatchOf(q) = BatchOf(p) /\ q < p) => q \in completed
    /\ \A b \in 1..NumBatches : Cardinality(InFlightOf(b)) <= 1
    /\ Cardinality(inflight) <= (Len(all_pairs) + batch_size - 1) \div batch_size

\* C3 witness: every batch has a request in flight at once, one of them the second
\* request of its batch.
C3_Witness ==
    /\ NumBatches >= 2
    /\ Cardinality(inflight) = NumBatches
    /\ \E p \in inflight : \E q \in completed : BatchOf(q) = BatchOf(p) /\ q < p

\* C4: for distinct pairs the returned mapping is the function of the per-pair
\* outcomes, whatever the order in which the tasks ran and returned.
C4_MappingIndependentOfInterleaving ==
    (fpc = "returned" /\ Distinct(all_pairs)) => ohlc_data = ExpectedMapping

\* C4 witness: the second task returned before the first, and both delivered data.
C4_Witness ==
    /\ fpc = "returned"
    /\ Distinct(all_pairs)
    /\ Len(finished) >= 2
    /\ finished[1] = 2
    /\ \E p, q \in Positions :
          /\ BatchOf(p) = 1 /\ BatchOf(q) = 2
          /\ outcome[p].kind = "ok" /\ outcome[q].kind = "ok"
          /\ outcome[p].data # outcome[q].data
          /\ ohlc_data[all_pairs[p]] = outcome[p].data
          /\ ohlc_data[all_pairs[q]] = outcome[q].data

\* C5: a request that times out or hits a transport error only excludes its
\* pair: the fetcher eventually returns, with every pair that succeeded in the
\* mapping and the timed-out and failed pairs left out.
C5_TimeoutDegradesToExclusion ==
    <>( /\ fpc = "returned"
        /\ \A p \in Positions :
              /\ outcome[p].kind = "ok" => all_pairs[p] \in DOMAIN ohlc_data
              /\ outcome[p].kind \in {"timeout", "transport_error"} =>
                    all_pairs[p] \notin DOMAIN ohlc_data )

\* C5 witness: a batch whose first request timed out still delivered its next pair,
\* and a transport error elsewhere did not stop the return.
C5_Witness ==
    /\ fpc = "returned"
    /\ \E p, q, r \in Positions :
          /\ outcome[p].kind = "timeout"
          /\ BatchOf(q) = BatchOf(p) /\ q > p /\ outcome[q].kind = "ok"
          /\ outcome[r].kind = "transport_error"
          /\ all_pairs[q] \in DOMAIN ohlc_data
          /\ all_pairs[p] \notin DOMAIN ohlc_data
          /\ all_pairs[r] \notin DOMAIN ohlc_data

\* ------------------------------------------------------ analyzer: claims
SeqToSet(s) == {s[i] : i \in 1..Len(s)}

TimesOf(df) == {df.rows[i].time : i \in 1..Len(df.rows)}

UniqueTimes(df) ==
    \A i, j \in 1..Len(df.rows) : df.rows[i].time = df.rows[j].time => i = j

\* The (timestamp, rawDiscrepancy, adjustedDiscrepancy) part of the records.
Values(recs) ==
    {[time |-> r.time, raw |-> r.raw_discrepancy, adj |-> r.adjusted_discrepancy] :
        r \in SeqToSet(recs)}

\* C8: backtest_and_compare(A, B) and backtest_and_compare(B, A) give the same set
\* of (timestamp, rawDiscrepancy, adjustedDiscrepancy); the pair and fee labels are
\* those of the other call, swapped.
C8_CompareIsSymmetric ==
    an_pc = "both" =>
        /\ Values(an_out) = Values(an_rev)
        /\ {[r EXCEPT !.pair_a = r.pair_b, !.pair_b = r.pair_a,
                      !.fee_a = r.fee_b, !.fee_b = r.fee_a] : r \in SeqToSet(an_rev)}
              = SeqToSet(an_out)

\* C8 witness: with the default threshold both calls returned a record, for pairs
\* with different fees.
C8_Witness ==
    /\ an_pc = "both"
    /\ ~an_threshold.given
    /\ an_out # <<>>
    /\ an_out[1].fee_a # an_out[1].fee_b
    /\ an_rev[1].pair_a = an_out[1].pair_b
    /\ an_out[1].raw_discrepancy > 0

\* C9 as stated: exactly one returned record for each timestamp present in both
\* series, none for a timestamp of one series only.
C9_Original_OneRecordPerCommonTimestamp ==
    (an_pc # "ready" /\ UniqueTimes(an_a) /\ UniqueTimes(an_b)) =>
        /\ {r.time : r \in SeqToSet(an_out)} = TimesOf(an_a) \cap TimesOf(an_b)
        /\ \A i, j \in 1..Len(an_out) : an_out[i].time = an_out[j].time => i = j

\* C9 amended: for two series without repeated timestamps, the joined table has
\* exactly one row for each timestamp present in both series and none for a
\* timestamp of one series only; the records returned are those rows, at most
\* one per common timestamp, whose adjusted discrepancy is above the entry
\* threshold, so every row is returned when the threshold is below all of them.
C9_InnerJoinThenThresholdFilter ==
    (an_pc # "ready" /\ UniqueTimes(an_a) /\ UniqueTimes(an_b)) =>
        /\ {an_df[i].time : i \in 1..Len(an_df)} = TimesOf(an_a) \cap TimesOf(an_b)
        /\ \A i, j \in 1..Len(an_df) : an_df[i].time = an_df[j].time => i = j
        /\ \A i, j \in 1..Len(an_out) : an_out[i].time = an_out[j].time => i = j
        /\ {r.time : r \in SeqToSet(an_out)} =
              {an_df[i].time : i \in {j \in 1..Len(an_df) :
                    AboveEntryThreshold(an_df, j, an_threshold)}}
        /\ (an_threshold.given /\
               \A i \in 1..Len(an_df) :
                    an_df[i].adjusted_discrepancy > an_threshold.value)
              => {r.time : r \in SeqToSet(an_out)} = TimesOf(an_a) \cap TimesOf(an_b)

\* C9 witness: series that share some timestamps only; the table has a row for
\* each shared one and the call returned a record for one of them and not for
\* another.
C9_Witness ==
    /\ an_pc # "ready"
    /\ UniqueTimes(an_a) /\ UniqueTimes(an_b)
    /\ TimesOf(an_a) \ TimesOf(an_b) # {}
    /\ TimesOf(an_b) \ TimesOf(an_a) # {}
    /\ Len(an_df) >= 2
    /\ Len(an_out) >= 1
    /\ Len(an_out) < Len(an_df)

\* C10: every row of the joined table and every record returned has
\* rawDiscrepancy = |closeA - closeB| and adjustedDiscrepancy = rawDiscrepancy -
\* (feeA + feeB), each fee the pair's taker fee of the table or 0.0026 for a pair
\* the table does not list.
C10_DiscrepancyFormula ==
    an_pc # "ready" =>
        LET fa == IF an_a.rows[1].pair \in DOMAIN TradeFees
                  THEN TradeFees[an_a.rows[1].pair] ELSE 26
            fb == IF an_b.rows[1].pair \in DOMAIN TradeFees
                  THEN TradeFees[an_b.rows[1].pair] ELSE 26
        IN  /\ \A i \in 1..Len(an_df) :
                  /\ an_df[i].discrepancy =
                        (IF an_df[i].close_a >= an_df[i].close_b
                         THEN an_df[i].close_a - an_df[i].close_b
                         ELSE an_df[i].close_b - an_df[i].close_a)
                  /\ an_df[i].adjusted_discrepancy = an_df[i].discrepancy - fa - fb
                  /\ \E ia \in 1..Len(an_a.rows), ib \in 1..Len(an_b.rows) :
                        /\ an_a.rows[ia].time = an_df[i].time
                        /\ an_b.rows[ib].time = an_df[i].time
                        /\ an_a.rows[ia].close = an_df[i].close_a
                        /\ an_b.rows[ib].close = an_df[i].close_b
            /\ \A r \in SeqToSet(an_out) :
                  /\ r.fee_a = fa /\ r.fee_b = fb
                  /\ r.adjusted_discrepancy = r.raw_discrepancy - (fa + fb)
                  /\ \E i \in 1..Len(an_df) :
                        /\ an_df[i].time = r.time
                        /\ an_df[i].discrepancy = r.raw_discrepancy

\* C10 witness: the scenario of the specification, closes 100 and 101 at t = 0
\* and 102 and 95 at t = 15 for two pairs the fee table does not list: records
\* with raw 1 and adjusted 0.9948, raw 7 and adjusted 6.9948.
C10_Witness ==
    /\ an_pc # "ready"
    /\ an_a = ProcessOhlcData(ScenarioA, "LTCUSD")
    /\ an_b = ProcessOhlcData(ScenarioB, "XRPUSD")
    /\ Len(an_out) = 2
    /\ an_out[1].time = ToDatetime(0)
    /\ an_out[1].raw_discrepancy = 10000
    /\ an_out[1].adjusted_discrepancy = 9948
    /\ an_out[2].time = ToDatetime(15)
    /\ an_out[2].raw_discrepancy = 70000
    /\ an_out[2].adjusted_discrepancy = 69948

\* ---------------------------------------------------------- main: claims
RECURSIVE CountIn(_, _, _)
\* How often x occurs among the first n entries of s.
CountIn(s, x, n) ==
    IF n = 0 THEN 0 ELSE CountIn(s, x, n - 1) + (IF s[n] = x THEN 1 ELSE 0)

\* How often the unordered pair {a, b} occurs in a list of ordered pairs.
Unordered(s, a, b) ==
    CountIn(s, <<a, b>>, Len(s)) + (IF a = b THEN 0 ELSE CountIn(s, <<b, a>>, Len(s)))

\* The run ended at the prompt of the backtest main, on a reply that int()
\* does not accept or on the end of the input, before anything was fetched.
EndedAtPrompt == variant = "backtest" /\ mpc = "crashed"

\* The normalizer accepts the payload fetched for a pair: it has two rows or more.
Accepted(pair) == pair \in DOMAIN ohlc_data /\ Len(ohlc_data[pair]) >= 2

\* C6 as stated, for both scripts: after a failed catalogue fetch the pair list
\* is empty, no exception leaves main, and main ends reporting that no pairs were
\* found.
C6_CatalogFailureReportsNoPairs ==
    (mpc # "start" /\ catalog_answer.kind # "ok") =>
        /\ pairs_found = <<>>
        /\ mpc # "crashed"
        /\ mpc = "done" => report = "no_pairs"

\* C7: the loop goes on with no pair of a pair with itself and with no unordered
\* pair twice; when it is over it has gone on with every unordered pair of
\* selected_pairs exactly once, and called the analyzer exactly once for those
\* whose two payloads the normalizer accepted and never for the others.
C7_EachUnorderedPairOnce ==
    /\ \A k \in 1..Len(considered) :
          /\ considered[k][1] # considered[k][2]
          /\ Unordered(considered, considered[k][1], considered[k][2]) = 1
    /\ \A k \in 1..Len(analyzer_calls) :
          /\ Unordered(analyzer_calls, analyzer_calls[k][1], analyzer_calls[k][2]) = 1
          /\ Accepted(analyzer_calls[k][1]) /\ Accepted(analyzer_calls[k][2])
    /\ mpc = "save" =>
          \A i, j \in 1..Len(selected_pairs) :
             i < j =>
                /\ Unordered(considered, selected_pairs[i], selected_pairs[j]) = 1
                /\ Unordered(analyzer_calls, selected_pairs[i], selected_pairs[j])
                      = (IF Accepted(selected_pairs[i]) /\ Accepted(selected_pairs[j])
                         THEN 1 ELSE 0)

\* C7 witness: three pairs, three comparisons considered, the analyzer called for
\* the one whose two series were accepted and not for the two with a rejected one.
C7_Witness ==
    /\ mpc = "save"
    /\ variant = "backtest"
    /\ Len(selected_pairs) = 3
    /\ Len(considered) = 3
    /\ Len(analyzer_calls) = 1
    /\ \E p \in DOMAIN ohlc_data : ~Accepted(p)

\* ------------------------------------------------------ normalizer: claims
\* C11: for a payload of fewer than 2 rows process_ohlc_data returns None and does
\* not raise (the backtest main crashes only at its prompt, before any payload is
\* fetched); the pair has no frame and the analyzer is called for no pair
\* combination it is part of.
C11_ShortPayloadRejectedAndExcluded ==
    /\ \A p \in DOMAIN ohlc_data :
          Len(ohlc_data[p]) < 2 =>
             /\ FrameOf(variant, ohlc_data[p], p) = None
             /\ mpc \in {"compare", "save", "done"} => p \notin DOMAIN ohlc_frames
             /\ \A k \in 1..Len(analyzer_calls) :
                   analyzer_calls[k][1] # p /\ analyzer_calls[k][2] # p
    /\ EndedAtPrompt => (fpc = "off" /\ DOMAIN ohlc_data = {})

\* C11 witness: a run of the backtest main over three pairs, one of them with a
\* single candle: the loop is over, the other two were compared, the short one
\* has no frame.
C11_Witness ==
    /\ variant = "backtest"
    /\ mpc = "done"
    /\ \E p \in DOMAIN ohlc_data :
          /\ Len(ohlc_data[p]) = 1
          /\ p \notin DOMAIN ohlc_frames
          /\ Len(selected_pairs) = 3
          /\ analyzer_calls = << <<selected_pairs[1], selected_pairs[2]>> >>
          /\ selected_pairs[3] = p

\* C12 as stated: every frame the normalizer accepted, and the analyzer was called
\* with, is strictly increasing by timestamp, so no two of its rows have the same
\* timestamp.
C12_AcceptedSeriesStrictlyIncreasing ==
    an_pc # "ready" =>
    \A df \in {an_a, an_b} :
       \A i, j \in 1..Len(df.rows) :
          i < j => df.rows[i].time.epoch_s < df.rows[j].time.epoch_s

\* ------------------------------------------------- longer runs: claims
\* The rows of the results file that belong to a pair combination, in file order.
RowsOf(rows, a, b) ==
    SelectSeq(rows, LAMBDA r : r.pair_a = a /\ r.pair_b = b)

\* C13 as stated: within each pair combination the rows of the results file are
\* in ascending timestamp order.
C13_OutputAscendingPerCombination ==
    report = "saved" =>
        \A i, j \in 1..Len(csv_rows) :
           (/\ i < j
            /\ csv_rows[i].pair_a = csv_rows[j].pair_a
            /\ csv_rows[i].pair_b = csv_rows[j].pair_b)
              => csv_rows[i].time.epoch_s < csv_rows[j].time.epoch_s

RECURSIVE MinOf(_, _)
MinOf(xs, n) == IF n = 1 THEN xs[1] ELSE Min(MinOf(xs, n - 1), xs[n])

RECURSIVE SumOfSquares(_, _)
SumOfSquares(xs, n) == IF n = 0 THEN 0 ELSE SumOfSquares(xs, n - 1) + xs[n] * xs[n]

\* x[i] > mean + 2 * (sample standard deviation) of xs, from the sums of the
\* values and of their squares: with z the values less their minimum, in units
\* of their gcd, S = sum(z), Q = sum(z^2) and n the number of values,
\*   n * z[i] > S  and  (n * z[i] - S)^2 * (n - 1) > 4 * n * (n * Q - S^2).
ExceedsOwnMeanPlus2Std(xs, i) ==
    LET n == Len(xs)
        lo == MinOf(xs, n)
        ys == [j \in 1..n |-> xs[j] - lo]
        g == GcdSeq(ys, n)
        zs == [j \in 1..n |-> IF g = 0 THEN 0 ELSE ys[j] \div g]
        S == SumSeq(zs, n)
        Q == SumOfSquares(zs, n)
    IN  /\ n >= 2
        /\ n * zs[i] > S
        /\ (n * zs[i] - S) * (n * zs[i] - S) * (n - 1) > 4 * n * (n * Q - S * S)

\* The adjusted discrepancies of the joined rows of two frames.
AdjustedOf(a, b) ==
    LET table == JoinedTable(ohlc_frames[a], ohlc_frames[b])
    IN  [i \in 1..Len(table) |-> table[i].adjusted_discrepancy]

\* C19: every call of the run, made without a threshold, returned exactly the
\* joined rows of its own two frames whose adjusted discrepancy is above mean +
\* 2 * std of the adjusted discrepancies of those same rows.
C19_DefaultThresholdFromOwnRows ==
    mpc \in {"compare", "save", "done"} =>
        \A k \in 1..Len(analyzer_calls) :
           LET a == analyzer_calls[k][1]
               b == analyzer_calls[k][2]
               table == JoinedTable(ohlc_frames[a], ohlc_frames[b])
               xs == AdjustedOf(a, b)
               got == RowsOf(Flatten(all_results, Len(all_results)), a, b)
           IN  {[time |-> got[i].time, adj |-> got[i].adjusted_discrepancy] :
                    i \in 1..Len(got)}
                 = {[time |-> table[i].time, adj |-> xs[i]] :
                       i \in {j \in 1..Len(xs) : ExceedsOwnMeanPlus2Std(xs, j)}}

\* C19 witness: a run in which one combination returned rows with an adjusted
\* discrepancy of 0.0148 or less while the call for another combination returned
\* nothing from a table of unequal rows, some of them above 1.
C19_Witness ==
    /\ mpc = "done"
    /\ \E r \in SeqToSet(csv_rows) : r.adjusted_discrepancy <= 148
    /\ \E k \in 1..Len(analyzer_calls) :
          LET a == analyzer_calls[k][1]
              b == analyzer_calls[k][2]
              xs == AdjustedOf(a, b)
          IN  /\ RowsOf(csv_rows, a, b) = <<>>
              /\ \E i \in 1..Len(xs) : xs[i] > 10000
              /\ \E i, j \in 1..Len(xs) : xs[i] # xs[j]

\* ------------------------------------------------------------ store: claims
\* The rows of a table as a set.
RowSet(table) == {table.rows[i] : i \in 1..Len(table.rows)}

\* How many rows of the table are the stored form of the record r.
CountOf(table, r) == Cardinality({i \in 1..Len(table.rows) : table.rows[i] = ToSqlRow(r)})

\* The table holds a record with r's timestamp for r's pair combination.
HoldsSameCombination(table, r) ==
    \E x \in RowSet(table) :
       /\ x.time = SqlTime(r.time)
       /\ x.pair_a = r.pair_a
       /\ x.pair_b = r.pair_b

\* C14 as stated, for the calls whose load and write succeeded: an incoming
\* record is persisted if and only if the store held no record with its
\* timestamp for its pair combination.
C14_PersistedIffNewForCombination ==
    (st_calls > 0 /\ st_load = "ok" /\ st_write = "ok") =>
        \A k \in 1..Len(st_df) :
           (CountOf(db_table, st_df[k]) > CountOf(st_before, st_df[k]))
              <=> ~HoldsSameCombination(st_before, st_df[k])

\* The timestamp and the pair combination of a stored row.
KeyOf(x) == <<x.time, x.pair_a, x.pair_b>>

\* No two of the rows are of one timestamp and pair combination, as in the
\* results file, which has one row for each pair combination at a candle time.
DistinctKeys(rows) ==
    \A i, j \in 1..Len(rows) : KeyOf(rows[i]) = KeyOf(rows[j]) => i = j

\* The table holds a row with the timestamp of r.
HoldsTimestamp(table, r) == \E x \in RowSet(table) : x.time = SqlTime(r.time)

\* C15: after a first call has stored a batch, a second call with the same
\* batch or with any other one (each with one record for a timestamp and pair
\* combination) adds no row for a timestamp and pair combination already
\* stored, whatever its load and its write do, and after it no two rows of the
\* store are of one timestamp and pair combination; a call that loaded the
\* stored rows adds no row for any timestamp already stored at all.
C15_ReingestionAddsNoDuplicate ==
    (/\ st_calls = 2
     /\ st_before.rows # <<>>
     /\ DistinctKeys(st_before.rows)
     /\ DistinctKeys(st_df))
       => /\ \A k \in 1..Len(st_df) :
                HoldsSameCombination(st_before, st_df[k])
                   => CountOf(db_table, st_df[k]) <= CountOf(st_before, st_df[k])
          /\ DistinctKeys(db_table.rows)
          /\ st_load = "ok" =>
                \A k \in 1..Len(st_df) :
                   HoldsTimestamp(st_before, st_df[k])
                      => CountOf(db_table, st_df[k]) = CountOf(st_before, st_df[k])

\* C15 witness: a first call stored two records of one candle time; the second
\* call, whose load and write succeeded, brought the first of them again and a
\* record of a later time: the repeated record added no row, the later one was
\* appended.
C15_Witness ==
    /\ st_calls = 2
    /\ st_load = "ok"
    /\ st_write = "ok"
    /\ Len(st_before.rows) = 2
    /\ DistinctKeys(st_before.rows)
    /\ st_before.rows[1].time = st_before.rows[2].time
    /\ Len(st_df) = 2
    /\ ToSqlRow(st_df[1]) = st_before.rows[1]
    /\ st_df[2].time # st_df[1].time
    /\ db_table.rows = Append(st_before.rows, ToSqlRow(st_df[2]))

\* C16 as stated: whatever a call of save_to_database loads, every row that was
\* in the table before the call is in it, unchanged, after the call.
C16_StoredRecordsRemain ==
    st_calls > 0 => RowSet(st_before) \subseteq RowSet(db_table)

\* ----------------------------------------------------------- scorer: claims
\* The table the caller passed to the function called last, as it is after the
\* call: calculate_profit of enhanced_analysis may return another table than
\* the one it was given, the other functions hand back the caller's.
CallerTable ==
    IF sc_script = "enhanced" /\ sc_call = "calculate_profit" THEN sc_ret.caller
    ELSE sc_df

\* C17 as stated: after a scoring function returns, the caller's table has the
\* columns and values it had when the function was called.
C17_ScoringLeavesInputUnchanged ==
    (/\ sc_pc = "called"
     /\ sc_call \in {"calculate_profit", "backtest_trades_with_weights",
                     "optimize_thresholds"}
     /\ ~sc_ret.raised)
       => CallerTable = sc_in

\* All adjusted discrepancies of a table are equal.
AllEqual(xs) == \A i, j \in 1..Len(xs) : xs[i] = xs[j]

\* C18 as stated: when all adjusted discrepancies of the table are equal,
\* backtest_trades_with_weights (given mean and std_dev of the table and a profit
\* column) does not raise, its threshold value is the mean (for the 2 rows or
\* more that a standard deviation takes), and it returns no trade and a
\* weighted profit of 0; and backtest_and_compare without a threshold returns no
\* record.
C18_ZeroVarianceGivesEmptyResult ==
    /\ (/\ sc_pc = "called"
        /\ sc_call = "backtest_trades_with_weights"
        /\ "profit" \in sc_in.columns
        /\ AllEqual(Column(sc_in, "adjusted_discrepancy")))
          => /\ ~sc_ret.raised
             /\ sc_ret.filtered_trades.rows = <<>>
             /\ sc_ret.total_profit = <<>>
             /\ Len(sc_in.rows) >= 2 => sc_ret.threshold_value = sc_mean
    /\ (/\ an_pc = "called"
        /\ AllEqual([i \in 1..Len(an_df) |-> an_df[i].adjusted_discrepancy]))
          => an_out = <<>>

\* ------------------------------------------------------- calibrator: claims
\* x[i] > mean + (k / 10) * sd of xs, sd the standard deviation with the given
\* degrees of freedom removed (divisor n - ddof), from the sums of the values
\* and of their squares: with z the values less their minimum, in units of
\* their gcd, S = sum(z), Q = sum(z^2), n the number of values:
\*   n * z[i] > S  and  100 * (n * z[i] - S)^2 * (n - ddof) > k^2 * n * (n * Q - S^2).
ExceedsMeanPlusKSd(xs, i, k, ddof) ==
    LET n == Len(xs)
        lo == MinOf(xs, n)
        ys == [j \in 1..n |-> xs[j] - lo]
        g == GcdSeq(ys, n)
        zs == [j \in 1..n |-> IF g = 0 THEN 0 ELSE ys[j] \div g]
        S == SumSeq(zs, n)
        Q == SumOfSquares(zs, n)
    IN  /\ n > ddof
        /\ n * zs[i] > S
        /\ 100 * (n * zs[i] - S) * (n * zs[i] - S) * (n - ddof)
              > k * k * n * (n * Q - S * S)

\* The rows of the table above mean + (k / 10) * sd, as a set.
RowsAboveSd(df, k, ddof) ==
    {df[i] : i \in {j \in 1..Len(df) : ExceedsMeanPlusKSd(AdjustedColumn(df), j, k, ddof)}}

\* The calls a statement about the stdDev(k) threshold is about: those of
\* get_top_opportunities with method std_dev and an n that cuts nothing off, and
\* those of formulate_strategy.
TopByStdDev == cal_top.called /\ cal_method = "std_dev" /\ cal_n >= Len(cal_df.rows)

\* C20 as stated: the rows returned for stdDev(k) are those above mean + k *
\* (population standard deviation, divisor n).
C20_Original_PopulationStdDev ==
    /\ TopByStdDev => SeqToSet(cal_top.rows) = RowsAboveSd(cal_df.rows, cal_value, 0)
    /\ cal_strategy.called =>
          SeqToSet(cal_strategy.rows) = RowsAboveSd(cal_df.rows, DefaultThresholdFactor, 0)

\* C20 amended: the rows returned for stdDev(k) are those above mean + k *
\* (sample standard deviation, divisor n - 1), and none when the table has
\* fewer than 2 rows.
C20_SampleStdDev ==
    /\ TopByStdDev => SeqToSet(cal_top.rows) = RowsAboveSd(cal_df.rows, cal_value, 1)
    /\ cal_strategy.called =>
          SeqToSet(cal_strategy.rows) = RowsAboveSd(cal_df.rows, DefaultThresholdFactor, 1)
    /\ (TopByStdDev /\ Len(cal_df.rows) < 2) => cal_top.rows = <<>>

\* C20 witness: on four rows of 0 and one of 1, get_top_opportunities with
\* std_dev and 1.9 returned nothing (the row of 1 is 2 population standard
\* deviations, but fewer than 1.9 sample standard deviations, above the mean),
\* and formulate_strategy was called on the same table.
C20_Witness ==
    /\ TopByStdDev
    /\ cal_value = 19
    /\ Len(cal_df.rows) = 5
    /\ \A i \in 1..5 : cal_df.rows[i].adjusted_discrepancy = (IF i = 3 THEN 10000 ELSE 0)
    /\ cal_top.rows = <<>>
    /\ RowsAboveSd(cal_df.rows, 19, 0) # {}
    /\ cal_strategy.called

\* The parameters get_top_opportunities is called with, by method.
ValuesOf(method) == {mv[2] : mv \in {x \in MethodValues : x[1] = method}}

\* 100 times the quantile of percentile p of a non-empty list, from the sorted
\* values around position (n - 1) * p / 100.
QuantileTimes100(xs, p) ==
    LET n == Len(xs)
        sorted == Sorted(xs, n)
        lo == ((n - 1) * p) \div 100
        rest == (n - 1) * p - 100 * lo
    IN  IF rest = 0 THEN 100 * sorted[lo + 1]
        ELSE (100 - rest) * sorted[lo + 1] + rest * sorted[lo + 2]

\* C21: for the table of a call of get_top_opportunities by percentile or by
\* standard deviation, every larger parameter of the same method gives a subset
\* of the rows the call returned and every smaller one a superset, and the
\* percentile threshold does not fall when the percentile rises.
C21_ThresholdsMonotonic ==
    (cal_top.called /\ cal_method \in {"std_dev", "percentile"}) =>
        /\ \A v \in ValuesOf(cal_method) :
              LET other == SeqToSet(GetTopOpportunities(cal_df, cal_n, cal_method, v).rows)
              IN  /\ v >= cal_value => other \subseteq SeqToSet(cal_top.rows)
                  /\ v <= cal_value => SeqToSet(cal_top.rows) \subseteq other
        /\ (cal_method = "percentile" /\ cal_df.rows # <<>>) =>
              \A v \in ValuesOf("percentile") :
                 v >= cal_value =>
                    QuantileTimes100(AdjustedColumn(cal_df.rows), v)
                       >= QuantileTimes100(AdjustedColumn(cal_df.rows), cal_value)

\* C21 witness: a call by percentile 50 returned rows that percentile 95 does
\* not give, on a table where multiplier 1.0 gives a row and 1.9 gives none.
C21_Witness ==
    /\ cal_top.called
    /\ cal_method = "percentile"
    /\ cal_value = 50
    /\ cal_n = 10
    /\ SeqToSet(GetTopOpportunities(cal_df, 10, "percentile", 95).rows)
          # SeqToSet(cal_top.rows)
    /\ GetTopOpportunities(cal_df, 10, "std_dev", 10).rows # <<>>
    /\ GetTopOpportunities(cal_df, 10, "std_dev", 19).rows = <<>>

\* adjusted_discrepancy * volume_a in floats, NaN when one of them is NaN.
DiscrepancyTimesVolume(row) ==
    IF NaNCell \in {row["adjusted_discrepancy"], row["volume_a"]} THEN NaN
    ELSE Num(FloatMul[FloatOfDecimal[row["adjusted_discrepancy"]],
                      FloatOfCount(row["volume_a"])])

\* C22 as stated: after calculate_profit returns for a table with volumes, the
\* profit of every row is its adjusted discrepancy times its volume, nothing
\* deducted.
C22_ProfitIsDiscrepancyTimesVolume ==
    (/\ sc_pc = "called"
     /\ sc_call = "calculate_profit"
     /\ ~sc_ret.raised
     /\ "volume_a" \in sc_in.columns)
       => \A i \in 1..Len(sc_df.rows) :
             sc_df.rows[i]["profit"] = DiscrepancyTimesVolume(sc_df.rows[i])

\* weight1 >= weight2, for weights that are not NaN.
WeightAtLeast(weight1, weight2) ==
    \/ weight2.kind = "zero"
    \/ /\ weight1.kind = "exp"
       /\ weight2.kind = "exp"
       /\ ~FloatLess[weight2.ratio, weight1.ratio]

\* C23 as stated: of two trades returned by backtest_trades_with_weights with
\* equal volumes, the one with the larger adjusted discrepancy has a weight at
\* least as high as the other.
C23_WeightGrowsWithDistance ==
    (/\ sc_pc = "called"
     /\ sc_call = "backtest_trades_with_weights"
     /\ ~sc_ret.raised)
       => LET trades == sc_ret.filtered_trades.rows
          IN  \A i, j \in 1..Len(trades) :
                 (/\ trades[j]["adjusted_discrepancy"] > trades[i]["adjusted_discrepancy"]
                  /\ "volume_a" \in sc_in.columns =>
                        trades[j]["volume_a"] = trades[i]["volume_a"])
                    => WeightAtLeast(trades[j]["weight"], trades[i]["weight"])

\* C24 as stated: for a non-empty table of trades whose profits are numbers
\* and all equal, the Sharpe ratio evaluate_risk_metrics returned is 0.
C24_SharpeZeroForEqualProfits ==
    (/\ sc_pc = "called"
     /\ sc_call = "evaluate_risk_metrics"
     /\ sc_ret.trade_summary.rows # <<>>
     /\ \A i \in 1..Len(sc_ret.trade_summary.rows) :
           ~sc_ret.trade_summary.rows[i]["profit"].nan
     /\ AllEqual(Column(sc_ret.trade_summary, "profit")))
       => sc_ret.sharpe = Num(FloatZero)

\* C25 as stated: for a non-empty table of trades without a negative profit
\* (a profit that is NaN is not negative), the Sortino ratio
\* evaluate_risk_metrics returned is 0.
C25_SortinoZeroWithoutLosses ==
    (/\ sc_pc = "called"
     /\ sc_call = "evaluate_risk_metrics"
     /\ sc_ret.trade_summary.rows # <<>>
     /\ \A i \in 1..Len(sc_ret.trade_summary.rows) :
           \/ sc_ret.trade_summary.rows[i]["profit"].nan
           \/ sc_ret.trade_summary.rows[i]["profit"].v.sign >= 0)
       => sc_ret.sortino = Num(FloatZero)

\* The weighted profit of a row of the sweep as a number to compare: 0 for no
\* trade, else profit * exp(-ratio) of its one trade, given as the sign of the
\* profit and the ratio.
ProfitSign(row) ==
    IF row.profit = <<>> THEN 0
    ELSE IF row.profit[1].weight.kind = "zero" THEN 0
    ELSE row.profit[1].profit.v.sign

\* The weighted profit of row1 is at least that of row2, for rows of at most
\* one trade each and, where both have one, of the same profit.
ProfitAtLeast(row1, row2) ==
    IF ProfitSign(row1) # ProfitSign(row2) THEN ProfitSign(row1) > ProfitSign(row2)
    ELSE IF ProfitSign(row1) = 0 THEN TRUE
    ELSE LET w1 == row1.profit[1].weight
             w2 == row2.profit[1].weight
         IN  /\ row1.profit[1].profit = row2.profit[1].profit
             /\ IF ProfitSign(row1) = 1
                THEN ~FloatLess[w2.ratio, w1.ratio]
                ELSE ~FloatLess[w1.ratio, w2.ratio]

\* The float x is the multiplier of k tenths: 1.0 itself, 1.1 as the float
\* nearest to it, and from there on within 0.0001 of the tenth, np.arange
\* filling its array with floats that are not all the nearest to a tenth.
IsTenth(x, k) ==
    /\ k <= 11 => x = Multiplier(k)
    /\ FloatLess[FloatOfDecimal[k * (PriceScale \div 10) - 1], x]
    /\ FloatLess[x, FloatOfDecimal[k * (PriceScale \div 10) + 1]]

\* C26: the multiplier optimize_thresholds returned is one of the 41 of the
\* sweep from 1.0 to 5.0 in steps of 0.1, no multiplier of the sweep has a
\* larger weighted profit, and every smaller multiplier has a smaller one.
C26_SweepReturnsSmallestMaximizer ==
    (/\ sc_pc = "called"
     /\ sc_call = "optimize_thresholds"
     /\ ~sc_ret.raised)
       => /\ Len(sc_ret.results) = 41
          /\ \A i \in 1..41 : IsTenth(sc_ret.results[i].threshold, 9 + i)
          /\ \A i \in 1..40 : FloatLess[sc_ret.results[i].threshold,
                                         sc_ret.results[i + 1].threshold]
          /\ \E b \in 1..41 :
                /\ sc_ret.optimal = sc_ret.results[b].threshold
                /\ \A j \in 1..41 : ProfitAtLeast(sc_ret.results[b], sc_ret.results[j])
                /\ \A j \in 1..(b - 1) :
                      ~ProfitAtLeast(sc_ret.results[j], sc_ret.results[b])

\* C26 witness: a sweep over three equal rows and a fourth 1.5 standard
\* deviations above the mean returned 1.4, the multiplier nearest below the
\* fourth row, while multipliers from 1.5 on give no trade.
C26_Witness ==
    /\ sc_pc = "called"
    /\ sc_call = "optimize_thresholds"
    /\ ~sc_ret.raised
    /\ IsTenth(sc_ret.optimal, 14)
    /\ sc_ret.results[1].num_trades = 1
    /\ sc_ret.results[6].num_trades = 0

\* C26 witness of the flat case: a sweep over rows that are all equal found a
\* weighted profit of 0 at every multiplier and returned 1.0.
C26_FlatWitness ==
    /\ sc_pc = "called"
    /\ sc_call = "optimize_thresholds"
    /\ ~sc_ret.raised
    /\ \A i \in 1..41 : sc_ret.results[i].profit = <<>>
    /\ sc_ret.optimal = Multiplier(10)

\* ------------------------------------------------------- tuner main: claims
\* A fee file that is missing or invalid: not there, without one of the three
\* columns, or with a fee that is a text or a blank.
FeeFileInvalid(file) ==
    \/ ~file.exists
    \/ ~({"Pair", "TakerFee%", "MakerFee%"} \subseteq file.columns)
    \/ \E i \in 1..Len(file.rows) : \E c \in {"TakerFee%", "MakerFee%"} :
          ~file.rows[i][c].number \/ file.rows[i][c] = BlankCell

\* C27: once main of the tuner has read a missing or invalid fee file, the run
\* has ended with the diagnostic as its last error line, and no record has been
\* merged, validated or scored.
C27_ConfigFailureStopsBeforeComputation ==
    (tu_pc \notin {"off", "start", "data", "no_data"} /\ FeeFileInvalid(tu_fee_file)) =>
        /\ tu_pc = "no_fees"
        /\ tu_log # <<>>
        /\ tu_log[Len(tu_log)] = "Trade fee data unavailable. Exiting."
        /\ tu_steps = <<>>
        /\ tu_df = tu_db

\* ------------------------------------------------------- cache: claims
\* The loop iterations of main that are over.
FinishedIterations ==
    {i \in 1..Len(km_iters) : i < Len(km_iters) \/ km_pc \in {"loop", "done"}}

\* What a load at time now is to return for (pair, interval), from the saves
\* made so far.
ExpectedLoad(pair, interval, now) ==
    IF /\ <<pair, interval>> \in DOMAIN last_saved
       /\ now - last_saved[<<pair, interval>>].at < 15
    THEN SomeData(last_saved[<<pair, interval>>].data)
    ELSE NoData

\* C29: a load returns the data last saved for its (pair, interval) when that
\* save was made less than 15 minutes before, and None otherwise; every file of
\* the cache holds the last save of one (pair, interval); main fetches in an
\* iteration exactly when the load gave None or an empty list, and an iteration
\* that fetched and went on has saved what it fetched.
C29_CacheReturnsFreshSaves ==
    /\ (ca_call # <<>> /\ ca_call.name = "load_cached_data") =>
          ca_call.ret = ExpectedLoad(ca_call.pair, ca_call.interval, ca_call.at)
    /\ DOMAIN cache_files = {CachePath(k[1], k[2]) : k \in DOMAIN last_saved}
    /\ \A k \in DOMAIN last_saved :
          cache_files[CachePath(k[1], k[2])] =
             [last_fetched |-> IsoFormat(last_saved[k].at), data |-> last_saved[k].data]
    /\ \A i \in 1..Len(km_iters) :
          km_iters[i].fetched <=>
             (km_iters[i].cached_data.none \/ km_iters[i].cached_data.data = <<>>)
    /\ \A i \in FinishedIterations :
          /\ km_iters[i].saved <=> km_iters[i].fetched
          /\ km_iters[i].pair \in DOMAIN km_data
          /\ <<km_iters[i].pair, km_interval>> \in DOMAIN last_saved
    /\ (ca_call # <<>> /\ ca_call.name = "save_to_cache" /\ ca_call.by = "main") =>
          /\ km_iters[Len(km_iters)].saved
          /\ ca_call.pair = km_iters[Len(km_iters)].pair
          /\ ca_call.interval = km_interval
          /\ last_saved[<<ca_call.pair, km_interval>>] =
                [at |-> ca_call.at, data |-> ca_call.data]
          /\ km_data[ca_call.pair] = ca_call.data

\* C29 witness: main fetched a pair it had no file for and saved the candles,
\* used them from the cache for the same pair later, and a load made exactly 15
\* minutes after the save returned None.
C29_Witness ==
    /\ Len(km_iters) = 2
    /\ km_iters[1].fetched /\ km_iters[1].saved /\ km_iters[1].cached_data.none
    /\ ~km_iters[2].fetched /\ km_iters[2].cached_data.data # <<>>
    /\ ca_call.name = "load_cached_data"
    /\ <<ca_call.pair, ca_call.interval>> \in DOMAIN last_saved
    /\ ca_call.at - last_saved[<<ca_call.pair, ca_call.interval>>].at = 15
    /\ last_saved[<<ca_call.pair, ca_call.interval>>].data # <<>>
    /\ ca_call.ret = NoData

\* C28 as stated, for the two pair-comparison mains: a run that is over, was
\* not ended at the prompt, and has produced no result rows ended normally,
\* with the report of no pairs or of no discrepancies.
C28_ZeroCandidateRunEndsNormally ==
    (mpc \in {"done", "crashed"} /\ ~EndedAtPrompt /\ all_results = <<>>)
        => /\ mpc = "done"
           /\ report \in {"no_pairs", "no_discrepancies"}

\* The discrepancies of the joined rows of two legacy frames.
LegacyDiscrepancies(df_a, df_b) ==
    LET df == Merge(df_a.rows, df_b.rows)
    IN  [i \in 1..Len(df) |-> Discrepancy(df[i].close_a, df[i].close_b)]

\* C30: in a run of the legacy main, for every two frames of which the first
\* (the entry prices) has positive closes, backtest_and_validate returns an
\* empty result without raising, and no result is ever kept.
C30_LegacyAnalyzerAlwaysEmpty ==
    (variant = "legacy" /\ mpc \in {"compare", "save", "done", "crashed"}) =>
        /\ all_results = <<>>
        /\ \A a, b \in DOMAIN ohlc_frames :
              (\A i \in 1..Len(ohlc_frames[a].rows) : ohlc_frames[a].rows[i].close > 0)
                 => BacktestAndValidate(ohlc_frames[a], ohlc_frames[b])
                       = [raised |-> FALSE, rows |-> <<>>]

\* C30 witness: the legacy analyzer was called for two pairs whose joined rows
\* have one row above the entry level (discrepancy 2 at price 1), and the run
\* went on to the end of the loop with no result.
C30_Witness ==
    /\ variant = "legacy"
    /\ mpc = "save"
    /\ all_results = <<>>
    /\ \E k \in 1..Len(analyzer_calls) :
          LET df_a == ohlc_frames[analyzer_calls[k][1]]
              df_b == ohlc_frames[analyzer_calls[k][2]]
              ds == LegacyDiscrepancies(df_a, df_b)
          IN  \E i \in 1..Len(ds) :
                 /\ ds[i] = 20000
                 /\ df_a.rows[i].close = 10000
                 /\ LegacyAboveEntry(ds, df_a.rows[i].close, i)

====
